---- MODULE Spec2Model ----
(***************************************************************************)
(* API-key pipeline of the BAAS backend: Key Store (ApiKey collection),    *)
(* the authentication gates (apiKeyAuth, optionalApiKeyAuth,               *)
(* validateApiKey), the permission gate (checkApiKeyPermissions), the      *)
(* usage recorder (trackUsage) and the owner routes that create, update    *)
(* and delete Key Records.  One action per handler step; a step ends at    *)
(* an await of the handler, so that other requests interleave there.       *)
(***************************************************************************)
EXTENDS Integers, Sequences, FiniteSets, TLC

(***************************************************************************)
(* Bounds of the model.                                                    *)
(***************************************************************************)
MaxProjects == 1
MaxKeys == 1
MaxRequests == 1
MaxClock == 2

(***************************************************************************)
(* Values.                                                                 *)
(***************************************************************************)
Users == {"u1", "u2"}

\* lastUsed: { type: Date, default: null }
NullDate == 0

\* enum: ["auth", "database", "storage"]
PermissionEnum == {"auth", "database", "storage"}

\* enum: ["GET", "POST", "PUT", "DELETE", "PATCH", "OPTIONS"]
MethodEnum == {"GET", "POST", "PUT", "DELETE", "PATCH", "OPTIONS"}

\* the default of the generator's length parameter (length = 32)
DefaultKeyBytes == 32

\* crypto.randomBytes(length): the byte strings the model lets it draw
randomBytes(length) == {[i \in 1..length |-> b] : b \in {161, 178}}

HexChars == <<"0", "1", "2", "3", "4", "5", "6", "7", "8", "9",
              "a", "b", "c", "d", "e", "f">>

\* keyBytes.toString("hex")
RECURSIVE toHex(_)
toHex(bytes) ==
    IF bytes = << >> THEN ""
    ELSE HexChars[(Head(bytes) \div 16) + 1] \o HexChars[(Head(bytes) % 16) + 1]
             \o toHex(Tail(bytes))

\* `${prefix}_${keyBytes.toString("hex")}`, for the keyBytes that were drawn
generateApiKey(prefix, keyBytes) == prefix \o "_" \o toHex(keyBytes)

generateTestApiKey(keyBytes) == generateApiKey("pk_test", keyBytes)

generateProductionApiKey(keyBytes) == generateApiKey("pk_live", keyBytes)

\* str.startsWith(prefix)
startsWith(str, prefix) ==
    Len(str) >= Len(prefix) /\ SubSeq(str, 1, Len(prefix)) = prefix

HasLivePrefix(apiKey) == startsWith(apiKey, "pk_live_")

\* apiKey.startsWith("pk_live_") || apiKey.startsWith("pk_test_")
HasKeyPrefix(apiKey) ==
    startsWith(apiKey, "pk_live_") \/ startsWith(apiKey, "pk_test_")

\* a header that was not sent (or was sent empty: !apiKey holds for both)
NoHeader == ""

\* str.substring(start, end): both indices clamped to 0..length, and swapped
\* when start > end
substring(str, start, end) ==
    LET Clamp(i) == IF i < 0 THEN 0 ELSE IF i > Len(str) THEN Len(str) ELSE i
        from == IF Clamp(start) <= Clamp(end) THEN Clamp(start) ELSE Clamp(end)
        to == IF Clamp(start) <= Clamp(end) THEN Clamp(end) ELSE Clamp(start)
    IN  SubSeq(str, from + 1, to)

\* [a-f0-9]* over the whole string
IsLowerHex(str) ==
    \A i \in 1..Len(str) : \E j \in 1..16 : SubSeq(str, i, i) = HexChars[j]

\* the number of hex characters /^pk_(live|test)_[a-f0-9]{64}$/ asks for
FormatHexLen == 64

isValidPrefixOnly(apiKey) ==
    startsWith(apiKey, "pk_live_") \/ startsWith(apiKey, "pk_test_")

\* isValidApiKeyFormat: /^pk_(live|test)_[a-f0-9]{64}$/.test(apiKey)
isValidApiKeyFormat(apiKey) ==
    /\ apiKey /= ""
    /\ \E tag \in {"live", "test"} :
          LET head == "pk_" \o tag \o "_"
          IN  /\ startsWith(apiKey, head)
              /\ Len(apiKey) = Len(head) + FormatHexLen
              /\ IsLowerHex(substring(apiKey, Len(head), Len(apiKey)))

\* the null getApiKeyPrefix returns
NoPrefix == ""

\* getApiKeyPrefix: match[1] of /^pk_(live|test)_/, or null
getApiKeyPrefix(apiKey) ==
    IF ~isValidApiKeyFormat(apiKey) THEN NoPrefix
    ELSE IF startsWith(apiKey, "pk_live_") THEN "live"
    ELSE IF startsWith(apiKey, "pk_test_") THEN "test"
    ELSE NoPrefix

\* the shortest string maskApiKey shows a part of
MaskMinLen == 12

maskAlways(apiKey) == "***"

\* maskApiKey
maskApiKey(apiKey) ==
    IF apiKey = "" \/ Len(apiKey) < MaskMinLen THEN "***"
    ELSE substring(apiKey, 0, 8) \o "..."
             \o substring(apiKey, Len(apiKey) - 4, Len(apiKey))

\* the secrets generateProductionApiKey() can give
ProductionKeys ==
    {generateProductionApiKey(b) : b \in randomBytes(DefaultKeyBytes)}

\* a well-prefixed secret the route never gives, and one with another prefix
TestKey == generateTestApiKey(CHOOSE b \in randomBytes(DefaultKeyBytes) : TRUE)

ForeignKey ==
    generateApiKey("sk_live", CHOOSE b \in randomBytes(DefaultKeyBytes) : TRUE)

\* x-api-key values a caller may send
KeyHeaderInputs == {NoHeader} \cup ProductionKeys \cup {TestKey, ForeignKey}

\* x-api-key values sent to the store-backed gates, which look the value up
\* whatever its prefix
LookupHeaderInputs == KeyHeaderInputs \ {ForeignKey}

\* x-api-key values sent to the header-only gate, which reads the prefix only
ShapeHeaderInputs ==
    {NoHeader, CHOOSE k \in ProductionKeys : TRUE, TestKey, ForeignKey}

\* the length /^[a-f0-9]{24}$/ asks for
ObjectIdLen == 24

\* projectId.match(/^[a-f0-9]{24}$/)
IsObjectIdShape(s) == Len(s) = ObjectIdLen /\ IsLowerHex(s)

GoodProjectHeader == "5a5a5a5a5a5a5a5a5a5a5a5a"

\* x-project-id values a caller may send
ProjectHeaderInputs ==
    {NoHeader, GoodProjectHeader, "aaaaaaaaaaaaaaaaaaaaaaa",
     "5aFa5a5a5a5a5a5a5a5a5a5a"}

\* HTTP methods of the API requests
MethodInputs == {"GET", "HEAD"}

\* requiredPermissions of checkApiKeyPermissions
RequiredInputs == {<< >>, <<"auth", "database">>}

\* permissions arrays an owner may send
PermissionInputs == {<<"auth">>, <<"storage">>, <<"admin">>}

\* status codes the route handlers behind the gates answer with
HandlerStatuses == {200, 404}

\* an ApiKey document (apiKeySchema), and the value of an absent one
KeyDoc(p, k, n, d, perms, a, lu) ==
    [projectId |-> p, key |-> k, name |-> n, description |-> d,
     permissions |-> perms, isActive |-> a, lastUsed |-> lu]

NoDoc == KeyDoc(0, NoHeader, "", "", << >>, FALSE, NullDate)


\* the fields a PUT /api-keys/:keyId body may carry (undefined when not in has)
Patch(has, n, d, perms, a) ==
    [has |-> has, name |-> n, description |-> d, permissions |-> perms,
     isActive |-> a]

\* bodies an owner may send to PUT /api-keys/:keyId
PatchInputs ==
    {Patch({"isActive"}, "", "", << >>, FALSE),
     Patch({"isActive"}, "", "", << >>, TRUE),
     Patch({"name", "description"}, "n2", "d2", << >>, FALSE)}
        \cup {Patch({"permissions"}, "", "", p, FALSE) : p \in PermissionInputs}

\* an identifier that is no ObjectId (findById rejects with a CastError)
MalformedId == 0

\* bodies an owner may send to POST /api-keys/generate
GenerateInputs ==
    {Patch({}, "", "", << >>, FALSE)}
        \cup {Patch({"permissions"}, "", "", p, FALSE) : p \in PermissionInputs}

(***************************************************************************)
(* State.                                                                  *)
(***************************************************************************)
VARIABLES
    clock,        \* the value of new Date()
    projects,     \* Project collection: _id -> [owner]
    nextProject,  \* number of Project _ids handed out
    apiKeys,      \* ApiKey collection: _id -> document
    nextKey,      \* number of ApiKey _ids handed out
    usageLogs,    \* UsageLog collection
    pendingLogs,  \* UsageLog.create calls that have not settled
    req,          \* the API request in flight (or the last one completed)
    upd,          \* the PUT /api-keys/:keyId in flight between its two awaits
    consoleErrors,\* what console.error("Usage logging error:", err) printed
    crashed,      \* a promise rejection nobody handled
    call,         \* the last call of a Key Generator utility and its result
    stat          \* the GET /usage/stats/:projectId in flight and its answers

vars == <<clock, projects, nextProject, apiKeys, nextKey, usageLogs,
          pendingLogs, req, upd, consoleErrors, crashed, call, stat>>

\* the populated projectId of a document (null when the project is gone)
NoProject == [found |-> FALSE, id |-> 0, owner |-> ""]

PopulateWithoutLookup(pid) == [found |-> TRUE, id |-> pid, owner |-> ""]

Populate(pid) ==
    IF pid \in DOMAIN projects
    THEN [found |-> TRUE, id |-> pid, owner |-> projects[pid].owner]
    ELSE NoProject

NoKeyDoc ==
    [found |-> FALSE, id |-> 0, doc |-> NoDoc, project |-> NoProject,
     modified |-> {}]

IdleReq ==
    [id |-> 0, gate |-> "none", header |-> NoHeader, projHeader |-> NoHeader,
     path |-> "/db/query", method |-> "GET", required |-> << >>,
     pc |-> "idle", keyDoc |-> NoKeyDoc,
     apiKey |-> "none", projectId |-> "none", project |-> "none",
     status |-> 0, error |-> "",
     bodyRequired |-> << >>, bodyCurrent |-> << >>, nextCalled |-> FALSE,
     tracked |-> FALSE, start |-> 0, permChecked |-> FALSE,
     handlerRan |-> FALSE, ended |-> 0, sent |-> 0]

\* the document PUT /api-keys/:keyId loaded, as save() needs it: the values the
\* body set and the paths they modified
IdleUpd ==
    [pc |-> "idle", keyId |-> 0, key |-> NoHeader,
     set |-> Patch({}, "", "", << >>, FALSE), modified |-> {}]

\* no utility has been called
IdleCall == [fn |-> "none", arg |-> "", tag |-> "", length |-> 0, out |-> ""]

\* no GET /usage/stats/:projectId is in flight; the fields are the local
\* variables of the handler, pc the await it is at
IdleStat ==
    [pc |-> "idle", status |-> 0, projectId |-> 0, startDate |-> 0,
     today |-> 0, totalCalls |-> 0, todayCalls |-> 0, topEndpoints |-> {},
     errorCalls |-> 0, statusCodeStats |-> {}, avgResponseTime |-> 0,
     recentActivity |-> << >>, errorRate |-> "0"]

Init ==
    /\ clock = 1
    /\ projects = << >>
    /\ nextProject = 0
    /\ apiKeys = << >>
    /\ nextKey = 0
    /\ usageLogs = {}
    /\ pendingLogs = {}
    /\ req = IdleReq
    /\ upd = IdleUpd
    /\ consoleErrors = {}
    /\ crashed = FALSE
    /\ call = IdleCall
    /\ stat = IdleStat

Remove(f, k) == [x \in DOMAIN f \ {k} |-> f[x]]

\* time passes
Tick ==
    /\ clock < MaxClock
    /\ clock' = clock + 1
    /\ UNCHANGED <<projects, nextProject, apiKeys, nextKey, usageLogs,
                   pendingLogs, req, upd, consoleErrors, crashed,
                   call, stat>>

(***************************************************************************)
(* Owner routes.  Each handler is an operator that gives its response and  *)
(* the collection it leaves, and an action that takes the collection over. *)
(* req.user is the identity authenticateToken attached.                    *)
(***************************************************************************)
Response(status, error) == [status |-> status, error |-> error]

\* router.post("/") of the project routes: a Project owned by req.user
CreateProject(u) ==
    /\ nextProject < MaxProjects
    /\ nextProject' = nextProject + 1
    /\ projects' = projects @@ ((nextProject + 1) :> [owner |-> u])
    /\ UNCHANGED <<clock, apiKeys, nextKey, usageLogs, pendingLogs, req, upd,
                   consoleErrors, crashed,
                   call, stat>>

\* router.delete("/:id") of the project routes
DeleteProjectResult(u, p) ==
    IF p = MalformedId
    THEN [resp |-> Response(400, "Invalid project ID"), projects |-> projects]
    ELSE IF p \notin DOMAIN projects
    THEN [resp |-> Response(404, "Project not found"), projects |-> projects]
    ELSE IF projects[p].owner /= u
    THEN [resp |-> Response(403, "Access denied"), projects |-> projects]
    ELSE [resp |-> Response(200, ""), projects |-> Remove(projects, p)]

DeleteProjectWithKeys(u, p) ==
    /\ projects' = DeleteProjectResult(u, p).projects
    /\ apiKeys' = IF DeleteProjectResult(u, p).resp.status = 200
                  THEN [k \in {x \in DOMAIN apiKeys :
                                  apiKeys[x].projectId /= p} |-> apiKeys[k]]
                  ELSE apiKeys
    /\ UNCHANGED <<clock, nextProject, nextKey, usageLogs, pendingLogs, req,
                   upd, consoleErrors, crashed, call, stat>>

DeleteProject(u, p) ==
    /\ projects' = DeleteProjectResult(u, p).projects
    /\ UNCHANGED <<clock, nextProject, apiKeys, nextKey, usageLogs,
                   pendingLogs, req, upd, consoleErrors, crashed,
                   call, stat>>

\* body("permissions.*").optional().isIn(["auth", "database", "storage"])
ValidPermissions(perms) == \A i \in 1..Len(perms) : perms[i] \in PermissionEnum

SecretNeverInUse(k) == FALSE

\* the unique index on key
SecretInUse(k) == \E id \in DOMAIN apiKeys : apiKeys[id].key = k

toJSONUnmasked(doc) == doc

\* apiKeySchema.methods.toJSON: the document with its key cut down to the
\* first 8 characters, "..." and the last 4 (a key that was not selected is
\* the empty string and stays so)
toJSON(doc) ==
    IF doc.key /= ""
    THEN [doc EXCEPT !.key = substring(doc.key, 0, 8) \o "..."
                                \o substring(doc.key, Len(doc.key) - 4,
                                             Len(doc.key))]
    ELSE doc

\* apiKeySchema.methods.getFullKey
getFullKey(doc) == doc.key

GenerateKeyRetryingOnce(u, p, body, key) ==
    LET fresh == {k \in ProductionKeys : ~SecretInUse(k)}
        used == IF SecretInUse(key) /\ fresh /= {}
                THEN CHOOSE k \in fresh : TRUE ELSE key
        doc == KeyDoc(p, used,
                      IF "name" \in body.has /\ body.name /= ""
                      THEN body.name ELSE "Production Key",
                      IF "description" \in body.has
                      THEN body.description ELSE "",
                      IF "permissions" \in body.has
                      THEN body.permissions ELSE <<"auth", "database">>,
                      TRUE, NullDate)
    IN  IF \/ p = MalformedId
           \/ "permissions" \in body.has /\ ~ValidPermissions(body.permissions)
        THEN [resp |-> Response(400, "Validation failed"),
              apiKey |-> NoDoc, apiKeys |-> apiKeys]
        ELSE IF ~(p \in DOMAIN projects /\ projects[p].owner = u)
        THEN [resp |-> Response(404, "Project not found"),
              apiKey |-> NoDoc, apiKeys |-> apiKeys]
        ELSE IF SecretInUse(used)
        THEN [resp |-> Response(409, "Duplicate API key"),
              apiKey |-> NoDoc, apiKeys |-> apiKeys]
        ELSE [resp |-> Response(201, ""),
              apiKey |-> [toJSON(doc) EXCEPT !.key = doc.key],
              apiKeys |-> apiKeys @@ ((nextKey + 1) :> doc)]

\* router.post("/generate"); key: what generateProductionApiKey() returned
GenerateKeyResult(u, p, body, key) ==
    LET doc == KeyDoc(p, key,
                      IF "name" \in body.has /\ body.name /= ""
                      THEN body.name ELSE "Production Key",
                      IF "description" \in body.has
                      THEN body.description ELSE "",
                      IF "permissions" \in body.has
                      THEN body.permissions ELSE <<"auth", "database">>,
                      TRUE, NullDate)
        \* responseData = apiKey.toJSON(); responseData.key = getFullKey()
        responseData == [toJSON(doc) EXCEPT !.key = getFullKey(doc)]
    IN  IF \/ p = MalformedId
           \/ "permissions" \in body.has /\ ~ValidPermissions(body.permissions)
        THEN [resp |-> Response(400, "Validation failed"),
              apiKey |-> NoDoc, apiKeys |-> apiKeys]
        ELSE IF ~(p \in DOMAIN projects /\ projects[p].owner = u)
        THEN [resp |-> Response(404, "Project not found"),
              apiKey |-> NoDoc, apiKeys |-> apiKeys]
        ELSE IF SecretInUse(key)
        THEN [resp |-> Response(409, "Duplicate API key"),
              apiKey |-> NoDoc, apiKeys |-> apiKeys]
        ELSE [resp |-> Response(201, ""), apiKey |-> responseData,
              apiKeys |-> apiKeys @@ ((nextKey + 1) :> doc)]

GenerateKey(u, p, body, key) ==
    /\ LET res == GenerateKeyResult(u, p, body, key)
       IN  /\ apiKeys' = res.apiKeys
           /\ nextKey' = IF res.resp.status = 201 THEN nextKey + 1 ELSE nextKey
    /\ UNCHANGED <<clock, projects, nextProject, usageLogs, pendingLogs, req,
                   upd, consoleErrors, crashed,
                   call, stat>>

\* if (x !== undefined) apiKey.x = x, for the four fields of the body
ApplyPatch(doc, patch) ==
    [doc EXCEPT
        !.name = IF "name" \in patch.has THEN patch.name ELSE @,
        !.description =
            IF "description" \in patch.has THEN patch.description ELSE @,
        !.permissions =
            IF "permissions" \in patch.has THEN patch.permissions ELSE @,
        !.isActive = IF "isActive" \in patch.has THEN patch.isActive ELSE @]

EveryPath(loaded, doc) ==
    {"name", "description", "permissions", "isActive", "lastUsed"}

\* the paths a document's save() writes: those set to a value that differs
\* from the value the document was loaded with
ModifiedPaths(loaded, doc) ==
    {f \in {"name", "description", "permissions", "isActive", "lastUsed"} :
        doc[f] /= loaded[f]}

SaveWholeDoc(stored, doc, modified) == doc

\* save() of a loaded document: $set of its modified paths on the stored one
SaveDoc(stored, doc, modified) ==
    LET Pick(f) == IF f \in modified THEN doc[f] ELSE stored[f]
    IN  KeyDoc(stored.projectId, stored.key, Pick("name"), Pick("description"),
               Pick("permissions"), Pick("isActive"), Pick("lastUsed"))

KeyAccessWithoutOwnerCheck(u, k) ==
    IF k = MalformedId THEN Response(400, "Invalid API key ID")
    ELSE IF k \notin DOMAIN apiKeys THEN Response(404, "API key not found")
    ELSE IF ~Populate(apiKeys[k].projectId).found
    THEN Response(500, "Internal server error")
    ELSE Response(200, "")

\* findById(keyId).populate("projectId", "owner") and the owner check that the
\* GET, PUT and DELETE handlers of /api-keys/:keyId start with
KeyAccess(u, k) ==
    IF k = MalformedId THEN Response(400, "Invalid API key ID")
    ELSE IF k \notin DOMAIN apiKeys THEN Response(404, "API key not found")
    ELSE IF ~Populate(apiKeys[k].projectId).found
    THEN Response(500, "Internal server error")
    ELSE IF Populate(apiKeys[k].projectId).owner /= u
    THEN Response(403, "Access denied")
    ELSE Response(200, "")

\* router.get("/project/:projectId"): its catch has no CastError branch; the
\* documents are found with .select("-key"), so that they carry no key
ListKeysResult(u, p) ==
    IF p = MalformedId
    THEN [resp |-> Response(500, "Internal server error"), apiKeys |-> {}]
    ELSE IF ~(p \in DOMAIN projects /\ projects[p].owner = u)
    THEN [resp |-> Response(404, "Project not found"), apiKeys |-> {}]
    ELSE [resp |-> Response(200, ""),
          apiKeys |->
              {[id |-> k, doc |-> toJSON([apiKeys[k] EXCEPT !.key = ""])] :
                  k \in {x \in DOMAIN apiKeys : apiKeys[x].projectId = p}}]

\* router.get("/:keyId")
GetKeyResult(u, k) ==
    IF KeyAccess(u, k).status /= 200
    THEN [resp |-> KeyAccess(u, k), apiKey |-> NoDoc]
    ELSE [resp |-> Response(200, ""), apiKey |-> toJSON(apiKeys[k])]

\* router.put("/:keyId") up to its await apiKey.save(): the response it ends
\* with, or status 0 when it goes on to save
UpdateBeginResult(u, k, patch) ==
    IF "permissions" \in patch.has /\ ~ValidPermissions(patch.permissions)
    THEN Response(400, "Validation failed")
    ELSE IF KeyAccess(u, k).status /= 200
    THEN KeyAccess(u, k)
    ELSE Response(0, "")

UpdateBegin(u, k, patch) ==
    /\ upd.pc = "idle"
    /\ upd' = IF UpdateBeginResult(u, k, patch).status /= 0
              THEN upd
              ELSE [pc |-> "save", keyId |-> k, key |-> apiKeys[k].key,
                    set |-> patch,
                    modified |-> ModifiedPaths(apiKeys[k],
                                               ApplyPatch(apiKeys[k], patch))]
    /\ UNCHANGED <<clock, projects, nextProject, apiKeys, nextKey, usageLogs,
                   pendingLogs, req, consoleErrors, crashed,
                   call, stat>>

\* router.put("/:keyId") from its await apiKey.save() on
UpdateSaveResult ==
    IF upd.modified = {}
    THEN [resp |-> Response(200, ""), apiKeys |-> apiKeys]
    ELSE IF upd.keyId \notin DOMAIN apiKeys
    THEN [resp |-> Response(500, "Internal server error"), apiKeys |-> apiKeys]
    ELSE [resp |-> Response(200, ""),
          apiKeys |-> [apiKeys EXCEPT ![upd.keyId] =
                          SaveDoc(@, ApplyPatch(@, upd.set), upd.modified)]]

\* apiKey.toJSON() of the response of router.put("/:keyId"): the key of the
\* document that was loaded and the fields the body set
UpdateSaveBody == toJSON(ApplyPatch([NoDoc EXCEPT !.key = upd.key], upd.set))

UpdateSave ==
    /\ upd.pc = "save"
    /\ upd' = IdleUpd
    /\ apiKeys' = UpdateSaveResult.apiKeys
    /\ UNCHANGED <<clock, projects, nextProject, nextKey, usageLogs,
                   pendingLogs, req, consoleErrors, crashed,
                   call, stat>>

\* router.delete("/:keyId")
DeleteKeyResult(u, k) ==
    IF KeyAccess(u, k).status /= 200
    THEN [resp |-> KeyAccess(u, k), apiKeys |-> apiKeys]
    ELSE [resp |-> Response(200, ""), apiKeys |-> Remove(apiKeys, k)]

DeleteKeyWithUsage(u, k) ==
    /\ apiKeys' = DeleteKeyResult(u, k).apiKeys
    /\ usageLogs' = IF DeleteKeyResult(u, k).resp.status = 200
                    THEN {l \in usageLogs : l.apiKeyId /= k}
                    ELSE usageLogs
    /\ UNCHANGED <<clock, projects, nextProject, nextKey, pendingLogs, req,
                   upd, consoleErrors, crashed,
                   call, stat>>

DeleteKey(u, k) ==
    /\ apiKeys' = DeleteKeyResult(u, k).apiKeys
    /\ UNCHANGED <<clock, projects, nextProject, nextKey, usageLogs,
                   pendingLogs, req, upd, consoleErrors, crashed,
                   call, stat>>

(***************************************************************************)
(* The API request pipeline.  req holds one request from its arrival to    *)
(* its response; the store-backed gates are followed by trackUsage,        *)
(* checkApiKeyPermissions(required) and a route handler, as their comments *)
(* ask ("Should be used after apiKeyAuth middleware"); validateApiKey is   *)
(* followed by the stub handlers of routes/api.js.                         *)
(***************************************************************************)
\* res.status(status).json({error}) of a gate, before res.end is wrapped
GateRespond(r, status, error) ==
    [r EXCEPT !.status = status, !.error = error, !.ended = @ + 1,
              !.sent = status, !.pc = "done"]

AlwaysKeyContext(r) == TRUE

\* if (req.apiKey && req.projectId)
HasKeyContext(r) == r.apiKey /= "none" /\ r.projectId /= "none"

\* the document UsageLog.create is called with
UsageDoc(r) ==
    [req |-> r.id,
     apiKeyId |-> IF r.apiKey = "doc" THEN r.keyDoc.id ELSE 0,
     projectId |-> IF r.projectId = "doc" THEN r.keyDoc.project.id ELSE 0,
     endpoint |-> r.path, method |-> r.method, statusCode |-> r.status,
     responseTime |-> clock - r.start, timestamp |-> clock]

\* the UsageLog.create calls the res.end of trackUsage issues
UsageCreates(r) ==
    IF r.tracked /\ HasKeyContext(r) THEN {UsageDoc(r)} ELSE {}

ResEndAfterCreate(r) ==
    [r EXCEPT !.ended = IF UsageCreates(r) = {} THEN @ + 1 ELSE @,
              !.sent = IF UsageCreates(r) = {} THEN r.status ELSE @,
              !.pc = "done"]

\* res.end(...) as the request sees it: the wrapper of trackUsage when the
\* request passed it, and originalEnd.apply(res, args)
ResEnd(r) == [r EXCEPT !.ended = @ + 1, !.sent = r.status, !.pc = "done"]

\* trackUsage: startTime = Date.now(), res.end = function ..., next()
trackUsage(r) == [r EXCEPT !.tracked = TRUE, !.start = clock]

HasSomePermission(required, perms) ==
    \E i \in 1..Len(required) : \E j \in 1..Len(perms) : perms[j] = required[i]

\* requiredPermissions.every((p) => req.apiKey.permissions.includes(p))
HasAllPermissions(required, perms) ==
    \A i \in 1..Len(required) : \E j \in 1..Len(perms) : perms[j] = required[i]

\* the decision of checkApiKeyPermissions(requiredPermissions): next is called
PermissionAllows(r) ==
    \/ r.apiKey = "none"
    \/ Len(r.required) = 0
    \/ HasAllPermissions(r.required, r.keyDoc.doc.permissions)

checkPermissionsEchoingRequired(r) ==
    IF PermissionAllows(r)
    THEN [r EXCEPT !.permChecked = TRUE, !.pc = "handler"]
    ELSE ResEnd([r EXCEPT !.permChecked = TRUE, !.status = 403,
                          !.error = "Insufficient permissions",
                          !.bodyRequired = r.required,
                          !.bodyCurrent = r.required])

\* checkApiKeyPermissions(requiredPermissions)(req, res, next)
checkApiKeyPermissions(r) ==
    IF PermissionAllows(r)
    THEN [r EXCEPT !.permChecked = TRUE, !.pc = "handler"]
    ELSE ResEnd([r EXCEPT !.permChecked = TRUE, !.status = 403,
                          !.error = "Insufficient permissions",
                          !.bodyRequired = r.required,
                          !.bodyCurrent = r.keyDoc.doc.permissions])

\* next() of a store-backed gate: trackUsage, then the permission gate
AfterGate(r) ==
    checkApiKeyPermissions(trackUsage([r EXCEPT !.nextCalled = TRUE]))

\* validateApiKey (the header-only gate of routes/api.js)
validateApiKey(r) ==
    IF r.header = NoHeader
    THEN GateRespond(r, 401, "API key required")
    ELSE IF r.projHeader = NoHeader
    THEN GateRespond(r, 401, "Project ID required")
    ELSE IF ~HasKeyPrefix(r.header)
    THEN GateRespond(r, 401, "Invalid API key format")
    ELSE IF ~IsObjectIdShape(r.projHeader)
    THEN GateRespond(r, 401, "Invalid Project ID format")
    ELSE [r EXCEPT !.apiKey = "header", !.projectId = "header",
                   !.nextCalled = TRUE, !.pc = "handler"]

NewReq(gate, header, projHeader, method, required) ==
    [IdleReq EXCEPT !.id = req.id + 1, !.gate = gate, !.header = header,
                    !.projHeader = projHeader, !.method = method,
                    !.required = required]

ReqFrame ==
    UNCHANGED <<clock, projects, nextProject, nextKey, usageLogs, upd,
                consoleErrors, crashed,
                   call, stat>>

\* apiKeyAuth up to its await ApiKey.findOne
StrictStart(header, method, required) ==
    /\ req.pc \in {"idle", "done"}
    /\ LET r == NewReq("strict", header, NoHeader, method, required)
       IN  req' = IF header = NoHeader
                  THEN GateRespond(r, 401, "API key required")
                  ELSE [r EXCEPT !.pc = "find"]
    /\ UNCHANGED <<apiKeys, pendingLogs>>
    /\ ReqFrame

\* optionalApiKeyAuth up to its await ApiKey.findOne
OptionalStart(header, method, required) ==
    /\ req.pc \in {"idle", "done"}
    /\ LET r == NewReq("optional", header, NoHeader, method, required)
       IN  req' = IF header = NoHeader
                  THEN AfterGate(r)
                  ELSE [r EXCEPT !.pc = "find"]
    /\ UNCHANGED <<apiKeys, pendingLogs>>
    /\ ReqFrame

\* router.use(validateApiKey) of routes/api.js, before router.get("/db/query")
WeakStart(header, projHeader) ==
    /\ req.pc \in {"idle", "done"}
    /\ req' = validateApiKey(NewReq("weak", header, projHeader, "GET", << >>))
    /\ UNCHANGED <<apiKeys, pendingLogs>>
    /\ ReqFrame

FindKeyIgnoringActive(header) ==
    {id \in DOMAIN apiKeys : apiKeys[id].key = header}

\* ApiKey.findOne({ key: apiKey, isActive: true })
FindActiveKey(header) ==
    {id \in DOMAIN apiKeys : apiKeys[id].key = header /\ apiKeys[id].isActive}

KeyNotFoundProceeds(r) == AfterGate(r)

\* the gate's answer when findOne gave null
KeyNotFound(r) == GateRespond(r, 401, "Invalid or inactive API key")

\* await ApiKey.findOne(...) of apiKeyAuth and optionalApiKeyAuth
ReqFind ==
    /\ req.pc = "find"
    /\ LET found == FindActiveKey(req.header)
       IN  req' = IF found = {}
                  THEN KeyNotFound(req)
                  ELSE LET id == CHOOSE i \in found : TRUE
                       IN  [req EXCEPT !.pc = "populate",
                                !.keyDoc = [found |-> TRUE, id |-> id,
                                            doc |-> apiKeys[id],
                                            project |-> NoProject,
                                            modified |-> {}]]
    /\ UNCHANGED <<apiKeys, pendingLogs>>
    /\ ReqFrame

\* .populate("projectId"), the project check and keyDoc.lastUsed = new Date()
ReqPopulate ==
    /\ req.pc = "populate"
    /\ LET project == Populate(req.keyDoc.doc.projectId)
           touched == [req.keyDoc.doc EXCEPT !.lastUsed = clock]
       IN  req' = IF ~project.found
                  THEN GateRespond(req, 401, "Associated project not found")
                  ELSE [req EXCEPT !.pc = "save",
                            !.keyDoc.project = project,
                            !.keyDoc.doc = touched,
                            !.keyDoc.modified =
                                ModifiedPaths(req.keyDoc.doc, touched)]
    /\ UNCHANGED <<apiKeys, pendingLogs>>
    /\ ReqFrame

\* the gate once await keyDoc.save() resolved: attach and next()
SaveResolved(r) ==
    AfterGate([r EXCEPT !.apiKey = "doc", !.projectId = "doc",
                        !.project = "doc"])

\* the gate once await keyDoc.save() rejected: the catch block
SaveRejected(r) == GateRespond(r, 500, "Authentication error")

\* await keyDoc.save() of the gate and what follows it; the save rejects when
\* it has a path to write and the store fails (fault) or the document is gone
ReqSave(fault) ==
    /\ req.pc = "save"
    /\ LET id == req.keyDoc.id
           writes == req.keyDoc.modified /= {}
           gone == id \notin DOMAIN apiKeys
           rejected == writes /\ (fault \/ gone)
           next == IF rejected THEN SaveRejected(req) ELSE SaveResolved(req)
       IN  /\ apiKeys' = IF rejected \/ ~writes
                         THEN apiKeys
                         ELSE [apiKeys EXCEPT ![id] =
                                  SaveDoc(@, req.keyDoc.doc,
                                          req.keyDoc.modified)]
           /\ req' = next
           /\ pendingLogs' = pendingLogs \cup
                  (IF next.pc = "done" THEN UsageCreates(next) ELSE {})
    /\ ReqFrame

\* the route handler behind the gates: res.status(status).json(...)
ReqHandler(status) ==
    /\ req.pc = "handler"
    /\ LET r == [req EXCEPT !.handlerRan = TRUE, !.status = status]
       IN  /\ req' = ResEnd(r)
           /\ pendingLogs' = pendingLogs \cup UsageCreates(r)
    /\ UNCHANGED apiKeys
    /\ ReqFrame


(***************************************************************************)
(* The usage recorder's persistence (UsageLog.create(...).catch(...)).     *)
(***************************************************************************)
\* the validators of usageLogSchema: required ids, the method enum
ValidUsageDoc(l) ==
    /\ l.apiKeyId /= 0
    /\ l.projectId /= 0
    /\ l.endpoint /= ""
    /\ l.method \in MethodEnum

UncaughtUsageError(l, name) == [errors |-> consoleErrors, crashed |-> TRUE]

\* .catch((err) => { console.error("Usage logging error:", err); })
CatchUsageError(l, name) ==
    [errors |-> consoleErrors \cup {[req |-> l.req, name |-> name]},
     crashed |-> crashed]

\* UsageLog.create resolves: the document is stored
LogStored(l) ==
    /\ l \in pendingLogs
    /\ ValidUsageDoc(l)
    /\ pendingLogs' = pendingLogs \ {l}
    /\ usageLogs' = usageLogs \cup {l}
    /\ UNCHANGED <<clock, projects, nextProject, apiKeys, nextKey, req, upd,
                   consoleErrors, crashed,
                   call, stat>>

\* UsageLog.create rejects: validation fails, or (fault) the store fails
LogRejected(l, fault) ==
    /\ l \in pendingLogs
    /\ ~ValidUsageDoc(l) \/ fault
    /\ pendingLogs' = pendingLogs \ {l}
    /\ LET c == CatchUsageError(l, IF ValidUsageDoc(l) THEN "MongoError"
                                   ELSE "ValidationError")
       IN  /\ consoleErrors' = c.errors
           /\ crashed' = c.crashed
    /\ UNCHANGED <<clock, projects, nextProject, apiKeys, nextKey, usageLogs,
                   req, upd,
                   call, stat>>

(***************************************************************************)
(* The Usage Aggregator (routes/usage.js).  Its handlers only read; each   *)
(* is an operator that gives the response for the UsageLog collection      *)
(* (logs) and the clock it reads.  The clock counts hours.                 *)
(***************************************************************************)
HoursPerDay == 24

\* expireAfterSeconds: 90 * 24 * 60 * 60 of the TTL index, in hours
ExpireAfterHours == 90 * HoursPerDay

\* the TTL monitor of the store: it deletes the documents that have expired
ExpireLogs ==
    /\ \E l \in usageLogs : l.timestamp + ExpireAfterHours <= clock
    /\ usageLogs' = {l \in usageLogs : l.timestamp + ExpireAfterHours > clock}
    /\ UNCHANGED <<clock, projects, nextProject, apiKeys, nextKey,
                   pendingLogs, req, upd, consoleErrors, crashed,
                   call, stat>>

\* ?period= values a caller may send
PeriodInputs == {"1d", "7d", "30d", "90d", "1y"}

PeriodDaysWithYear(period) ==
    CASE period = "1d" -> 1
      [] period = "7d" -> 7
      [] period = "30d" -> 30
      [] period = "90d" -> 90
      [] OTHER -> 365

\* switch (period): the days the window goes back
PeriodDays(period) ==
    CASE period = "1d" -> 1
      [] period = "7d" -> 7
      [] period = "30d" -> 30
      [] period = "90d" -> 90
      [] OTHER -> 30

\* ?days= values a caller may send, after parseInt(days)
DaysInputs == {0, 7, 100}

\* startDate = new Date(); startDate.setDate(startDate.getDate() - days)
StartDate(days) == clock - days * HoursPerDay

\* today = new Date(); today.setHours(0, 0, 0, 0)
Today == clock - (clock % HoursPerDay)

IsServerError(l) == l.statusCode >= 500

\* { $gte: ["$statusCode", 400] } and statusCode: { $gte: 400 }
IsError(l) == l.statusCode >= 400

ProjectMatchAnyTime(logs, p, start) == {l \in logs : l.projectId = p}

\* { projectId, timestamp: { $gte: start } }
ProjectMatch(logs, p, start) ==
    {l \in logs : l.projectId = p /\ l.timestamp >= start}

KeyMatchAnyTime(logs, k, start) == {l \in logs : l.apiKeyId = k}

\* { apiKeyId, timestamp: { $gte: start } }
KeyMatch(logs, k, start) ==
    {l \in logs : l.apiKeyId = k /\ l.timestamp >= start}

\* { $sum: "$responseTime" } over the documents of a group
RECURSIVE SumResponseTime(_)
SumResponseTime(S) ==
    IF S = {} THEN 0
    ELSE LET l == CHOOSE x \in S : TRUE
         IN  l.responseTime + SumResponseTime(S \ {l})

\* { $avg: "$responseTime" }: the mean as the fraction sum / n
Avg(S) == [sum |-> SumResponseTime(S), n |-> Cardinality(S)]

\* the number 0 where the response gives it in place of a mean
ZeroAvg == [sum |-> 0, n |-> 1]

\* Math.round(x) of the fraction x = sum / n
MathRound(x) == (2 * x.sum + x.n) \div (2 * x.n)

\* two digits after the decimal point
TwoDigits(n) == IF n < 10 THEN "0" \o ToString(n) ELSE ToString(n)

\* the decimal text of h hundredths
Hundredths(h) == ToString(h \div 100) \o "." \o TwoDigits(h % 100)

\* ((num / den) * 100).toFixed(2): the text of the nearest hundredth
PercentToFixed2(num, den) ==
    Hundredths((2 * 100 * 100 * num + den) \div (2 * den))

\* the JSON text of the number 0
JsonZero == "0"

\* totalCalls > 0 ? ((errorCalls / totalCalls) * 100).toFixed(2) : 0
ErrorRate(errorCalls, totalCalls) ==
    IF totalCalls > 0 THEN PercentToFixed2(errorCalls, totalCalls)
    ELSE JsonZero

\* Project.findOne({ _id: projectId, owner: req.user._id }) of the usage
\* routes and what the handler answers when it fails
ProjectAccess(u, p) ==
    IF p = MalformedId THEN Response(400, "Invalid project ID")
    ELSE IF ~(p \in DOMAIN projects /\ projects[p].owner = u)
    THEN Response(404, "Project not found")
    ELSE Response(200, "")

\* { $group: { _id: "$endpoint", count, avgResponseTime, errorCount } }
EndpointGroups(S) ==
    {[id |-> e, count |-> Cardinality({l \in S : l.endpoint = e}),
      avgResponseTime |-> Avg({l \in S : l.endpoint = e}),
      errorCount |-> Cardinality({l \in S : l.endpoint = e /\ IsError(l)})] :
        e \in {l.endpoint : l \in S}}

\* { $group: { _id: "$statusCode", count: { $sum: 1 } } }
StatusGroups(S) ==
    {[id |-> c, count |-> Cardinality({l \in S : l.statusCode = c})] :
        c \in {l.statusCode : l \in S}}

\* .limit(10) of the recent activity
RecentLimit == 10

RECURSIVE SortOldestFirst(_)
SortOldestFirst(S) ==
    IF S = {} THEN << >>
    ELSE LET l == CHOOSE x \in S :
                      \A y \in S : \/ y.timestamp > x.timestamp
                                   \/ (y.timestamp = x.timestamp
                                           /\ y.req >= x.req)
         IN  <<l>> \o SortOldestFirst(S \ {l})

\* .sort({ timestamp: -1 }): the documents newest first; documents of one
\* timestamp come in the reverse of the order of their requests
RECURSIVE SortNewestFirst(_)
SortNewestFirst(S) ==
    IF S = {} THEN << >>
    ELSE LET l == CHOOSE x \in S :
                      \A y \in S : \/ y.timestamp < x.timestamp
                                   \/ (y.timestamp = x.timestamp
                                           /\ y.req <= x.req)
         IN  <<l>> \o SortNewestFirst(S \ {l})

\* .limit(n)
Limit(docs, n) == SubSeq(docs, 1, IF Len(docs) < n THEN Len(docs) ELSE n)

\* UsageLog.find({ projectId }).sort({ timestamp: -1 }).limit(10).select(...)
RecentActivity(logs, p) ==
    LET found == Limit(SortNewestFirst({l \in logs : l.projectId = p}),
                       RecentLimit)
    IN  [i \in 1..Len(found) |->
            [id |-> found[i].req, endpoint |-> found[i].endpoint,
             method |-> found[i].method, statusCode |-> found[i].statusCode,
             responseTime |-> found[i].responseTime,
             timestamp |-> found[i].timestamp]]

\* the stats object of router.get("/stats/:projectId")
ProjectStats(logs, p, period) ==
    LET window == ProjectMatch(logs, p, StartDate(PeriodDays(period)))
        totalCalls == Cardinality(window)
        errorCalls == Cardinality({l \in window : IsError(l)})
    IN  [totalCalls |-> totalCalls,
         todayCalls |-> Cardinality(ProjectMatch(logs, p, Today)),
         errorRate |-> ErrorRate(errorCalls, totalCalls),
         avgResponseTime |-> IF window /= {} THEN MathRound(Avg(window))
                             ELSE 0,
         topEndpoints |-> EndpointGroups(window),
         statusCodeStats |-> StatusGroups(window),
         recentActivity |-> RecentActivity(logs, p)]

\* router.get("/stats/:projectId") for req.user = u
StatsResult(logs, u, p, period) ==
    IF ProjectAccess(u, p).status /= 200
    THEN [resp |-> ProjectAccess(u, p), stats |-> << >>]
    ELSE [resp |-> Response(200, ""), stats |-> ProjectStats(logs, p, period)]

\* what a step of the stats handler leaves alone
StatFrame ==
    UNCHANGED <<clock, projects, nextProject, apiKeys, nextKey, usageLogs,
                pendingLogs, req, upd, consoleErrors, crashed, call>>

\* the documents the windowed queries of the handler in flight match now
StatWindow == ProjectMatch(usageLogs, stat.projectId, stat.startDate)

\* router.get("/stats/:projectId") up to its first countDocuments: the
\* project is looked up and startDate is computed
StatsBegin(u, p, period) ==
    /\ stat.pc \in {"idle", "done"}
    /\ stat' = IF ProjectAccess(u, p).status /= 200
               THEN [IdleStat EXCEPT !.pc = "done",
                                     !.status = ProjectAccess(u, p).status]
               ELSE [IdleStat EXCEPT
                        !.pc = "totalCalls", !.projectId = p,
                        !.startDate = StartDate(PeriodDays(period))]
    /\ StatFrame

\* await countDocuments({ projectId, timestamp }); today = new Date() ...
StatsTotalCalls ==
    /\ stat.pc = "totalCalls"
    /\ stat' = [stat EXCEPT !.totalCalls = Cardinality(StatWindow),
                            !.today = Today, !.pc = "todayCalls"]
    /\ StatFrame

\* await countDocuments({ projectId, timestamp: { $gte: today } })
StatsTodayCalls ==
    /\ stat.pc = "todayCalls"
    /\ stat' = [stat EXCEPT
                   !.todayCalls =
                       Cardinality(ProjectMatch(usageLogs, stat.projectId,
                                                stat.today)),
                   !.pc = "topEndpoints"]
    /\ StatFrame

\* await aggregate([$match, $group by endpoint, $sort, $limit])
StatsTopEndpoints ==
    /\ stat.pc = "topEndpoints"
    /\ stat' = [stat EXCEPT !.topEndpoints = EndpointGroups(StatWindow),
                            !.pc = "errorCalls"]
    /\ StatFrame

\* await countDocuments({ projectId, statusCode: { $gte: 400 }, timestamp })
StatsErrorCalls ==
    /\ stat.pc = "errorCalls"
    /\ stat' = [stat EXCEPT
                   !.errorCalls = Cardinality({l \in StatWindow : IsError(l)}),
                   !.pc = "statusCodeStats"]
    /\ StatFrame

\* await aggregate([$match, $group by statusCode, $sort])
StatsStatusCodes ==
    /\ stat.pc = "statusCodeStats"
    /\ stat' = [stat EXCEPT !.statusCodeStats = StatusGroups(StatWindow),
                            !.pc = "avgResponseTime"]
    /\ StatFrame

\* await aggregate([$match, $group avgResponseTime])
StatsAvgResponseTime ==
    /\ stat.pc = "avgResponseTime"
    /\ stat' = [stat EXCEPT
                   !.avgResponseTime = IF StatWindow /= {}
                                       THEN MathRound(Avg(StatWindow)) ELSE 0,
                   !.pc = "recentActivity"]
    /\ StatFrame

\* await find({ projectId }).sort().limit(10), and res.json({ stats })
StatsRespond ==
    /\ stat.pc = "recentActivity"
    /\ stat' = [stat EXCEPT
                   !.recentActivity = RecentActivity(usageLogs, stat.projectId),
                   !.errorRate = ErrorRate(stat.errorCalls, stat.totalCalls),
                   !.status = 200,
                   !.pc = "done"]
    /\ StatFrame

\* { $group: { _id: { date: $dateToString "%Y-%m-%d" }, calls, errors } }
DailyGroups(S) ==
    {[date |-> d,
      calls |-> Cardinality({l \in S : l.timestamp \div HoursPerDay = d}),
      avgResponseTime |-> Avg({l \in S : l.timestamp \div HoursPerDay = d}),
      errors |-> Cardinality({l \in S : l.timestamp \div HoursPerDay = d
                                            /\ IsError(l)})] :
        d \in {l.timestamp \div HoursPerDay : l \in S}}

\* { $group: { _id: { hour: { $hour: "$timestamp" } }, calls } }
HourlyGroups(S) ==
    {[hour |-> h,
      calls |-> Cardinality({l \in S : l.timestamp % HoursPerDay = h})] :
        h \in {l.timestamp % HoursPerDay : l \in S}}

\* the analytics object of router.get("/analytics/:projectId")
ProjectAnalytics(logs, p, days) ==
    [dailyUsage |-> DailyGroups(ProjectMatch(logs, p, StartDate(days))),
     hourlyUsage |-> HourlyGroups(ProjectMatch(logs, p, Today)),
     endpointPerformance |->
         EndpointGroups(ProjectMatch(logs, p, StartDate(days)))]

\* router.get("/analytics/:projectId") for req.user = u
AnalyticsResult(logs, u, p, days) ==
    IF ProjectAccess(u, p).status /= 200
    THEN [resp |-> ProjectAccess(u, p), analytics |-> << >>]
    ELSE [resp |-> Response(200, ""),
          analytics |-> ProjectAnalytics(logs, p, days)]

\* ApiKey.findById(keyId).populate({ path: "projectId", populate: "owner" })
\* and the owner check of router.get("/keys/:keyId")
KeyUsageAccess(u, k) ==
    IF k = MalformedId THEN Response(400, "Invalid API key ID")
    ELSE IF k \notin DOMAIN apiKeys THEN Response(404, "API key not found")
    ELSE IF ~Populate(apiKeys[k].projectId).found
    THEN Response(500, "Internal server error")
    ELSE IF Populate(apiKeys[k].projectId).owner /= u
    THEN Response(403, "Access denied")
    ELSE Response(200, "")

\* { $max: "$timestamp" }
MaxTimestamp(S) ==
    CHOOSE t \in {l.timestamp : l \in S} : \A l \in S : l.timestamp <= t

\* the stats object of router.get("/keys/:keyId"): stats[0] of the $group
\* with its errorRate, or the zero object when the $group gave nothing
KeyStats(logs, k, period) ==
    LET window == KeyMatch(logs, k, StartDate(PeriodDays(period)))
        totalCalls == Cardinality(window)
        errorCount == Cardinality({l \in window : IsError(l)})
    IN  IF window /= {}
        THEN [totalCalls |-> totalCalls, avgResponseTime |-> Avg(window),
              errorCount |-> errorCount, lastUsed |-> MaxTimestamp(window),
              errorRate |-> ErrorRate(errorCount, totalCalls)]
        ELSE [totalCalls |-> 0, avgResponseTime |-> ZeroAvg,
              errorCount |-> 0, lastUsed |-> NullDate, errorRate |-> JsonZero]

\* router.get("/keys/:keyId") for req.user = u
KeyUsageResult(logs, u, k, period) ==
    IF KeyUsageAccess(u, k).status /= 200
    THEN [resp |-> KeyUsageAccess(u, k), stats |-> << >>]
    ELSE [resp |-> Response(200, ""), stats |-> KeyStats(logs, k, period)]

(***************************************************************************)
(* The specification.                                                      *)
(***************************************************************************)
ProjectIds == 1..MaxProjects

KeyIds == 1..MaxKeys

Next ==
    \/ Tick
    \/ \E u \in Users : CreateProject(u)
    \/ \E u \in Users, p \in ProjectIds \cup {MalformedId} : DeleteProject(u, p)
    \/ \E u \in Users, p \in ProjectIds \cup {MalformedId},
          body \in GenerateInputs, key \in ProductionKeys :
           nextKey < MaxKeys /\ GenerateKey(u, p, body, key)
    \/ \E u \in Users, k \in KeyIds \cup {MalformedId}, patch \in PatchInputs :
           UpdateBegin(u, k, patch)
    \/ UpdateSave
    \/ \E u \in Users, k \in KeyIds \cup {MalformedId} : DeleteKey(u, k)
    \/ \E h \in LookupHeaderInputs, m \in MethodInputs, r \in RequiredInputs :
           req.id < MaxRequests /\ StrictStart(h, m, r)
    \/ \E h \in LookupHeaderInputs, m \in MethodInputs, r \in RequiredInputs :
           req.id < MaxRequests /\ OptionalStart(h, m, r)
    \/ \E h \in ShapeHeaderInputs, ph \in ProjectHeaderInputs :
           req.id < MaxRequests /\ WeakStart(h, ph)
    \/ ReqFind
    \/ ReqPopulate
    \/ \E fault \in BOOLEAN : ReqSave(fault)
    \/ \E status \in HandlerStatuses : ReqHandler(status)
    \/ \E l \in pendingLogs : LogStored(l)
    \/ \E l \in pendingLogs, fault \in BOOLEAN : LogRejected(l, fault)

Spec == Init /\ [][Next]_vars


(***************************************************************************)
(* The usage specification: an owner has a project and a key, requests     *)
(* authenticated with the key are recorded while days pass and the TTL     *)
(* monitor runs, and the aggregator is asked about what is stored.         *)
(***************************************************************************)
MaxUsageRequests == 3

\* the key the owner generated
UsageKey == CHOOSE k \in ProductionKeys : TRUE

\* the hour the first request may arrive at (06:00 of the second day)
UsageStartTime == HoursPerDay + 6

\* the hours at which something happens later: the same day, the small hours
\* of the next day, and 91 days later
TimeInputs ==
    {UsageStartTime + 10, UsageStartTime + 20,
     UsageStartTime + 91 * HoursPerDay}

\* time passes until hour t
Advance(t) ==
    /\ t > clock
    /\ clock' = t
    /\ UNCHANGED <<projects, nextProject, apiKeys, nextKey, usageLogs,
                   pendingLogs, req, upd, consoleErrors, crashed,
                   call, stat>>

UsageInit ==
    /\ clock = UsageStartTime
    /\ projects = 1 :> [owner |-> "u1"]
    /\ nextProject = 1
    /\ apiKeys = 1 :> KeyDoc(1, UsageKey, "Production Key", "",
                             <<"auth", "database">>, TRUE, NullDate)
    /\ nextKey = 1
    /\ usageLogs = {}
    /\ pendingLogs = {}
    /\ req = IdleReq
    /\ upd = IdleUpd
    /\ consoleErrors = {}
    /\ crashed = FALSE
    /\ call = IdleCall
    /\ stat = IdleStat

UsageNext ==
    \/ \E t \in TimeInputs : Advance(t)
    \/ ExpireLogs
    \/ req.id < MaxUsageRequests /\ StrictStart(UsageKey, "GET", << >>)
    \/ ReqFind
    \/ ReqPopulate
    \/ ReqSave(FALSE)
    \/ \E status \in HandlerStatuses : ReqHandler(status)
    \/ \E l \in pendingLogs : LogStored(l)

UsageSpec == UsageInit /\ [][UsageNext]_vars


(***************************************************************************)
(* The Key Generator specification: the utilities of apiKeyGenerator.js    *)
(* are called with inputs drawn from bounded sets; call holds the last     *)
(* call and its result.                                                    *)
(***************************************************************************)
MaxKeyBytes == 33

MaxMaskLen == 20

\* the environment tags: generateProductionApiKey and generateTestApiKey
TagInputs == {"live", "test"}

\* strings maskApiKey is called with: the first n characters of a secret, a
\* secret, and a string that has "..." where the mask puts it
MaskInputs ==
    {SubSeq(UsageKey, 1, n) : n \in 0..MaxMaskLen}
        \cup ProductionKeys \cup {"abcdefgh...wxyz", "abcdefgh---wxyz"}

\* the text of a boolean result
BoolText(b) == IF b THEN "true" ELSE "false"

\* generateProductionApiKey(length) or generateTestApiKey(length)
CallGenerate(tag, keyBytes) ==
    /\ call' = [fn |-> "generateApiKey", arg |-> "", tag |-> tag,
                length |-> Len(keyBytes),
                out |-> IF tag = "live"
                        THEN generateProductionApiKey(keyBytes)
                        ELSE generateTestApiKey(keyBytes)]
    /\ UNCHANGED <<clock, projects, nextProject, apiKeys, nextKey, usageLogs,
                   pendingLogs, req, upd, consoleErrors, crashed,
                   stat>>

\* isValidApiKeyFormat of the secret the generator just returned
CallIsValid ==
    /\ call.fn = "generateApiKey"
    /\ call' = [call EXCEPT !.fn = "isValidApiKeyFormat", !.arg = call.out,
                            !.out = BoolText(isValidApiKeyFormat(call.out))]
    /\ UNCHANGED <<clock, projects, nextProject, apiKeys, nextKey, usageLogs,
                   pendingLogs, req, upd, consoleErrors, crashed,
                   stat>>

\* getApiKeyPrefix of the secret the generator just returned
CallGetPrefix ==
    /\ call.fn = "generateApiKey"
    /\ call' = [call EXCEPT !.fn = "getApiKeyPrefix", !.arg = call.out,
                            !.out = getApiKeyPrefix(call.out)]
    /\ UNCHANGED <<clock, projects, nextProject, apiKeys, nextKey, usageLogs,
                   pendingLogs, req, upd, consoleErrors, crashed,
                   stat>>

\* maskApiKey(apiKey)
CallMask(apiKey) ==
    /\ call' = [fn |-> "maskApiKey", arg |-> apiKey, tag |-> "",
                length |-> 0, out |-> maskApiKey(apiKey)]
    /\ UNCHANGED <<clock, projects, nextProject, apiKeys, nextKey, usageLogs,
                   pendingLogs, req, upd, consoleErrors, crashed,
                   stat>>

UtilNext ==
    \/ \E tag \in TagInputs, n \in 0..MaxKeyBytes :
          \E keyBytes \in randomBytes(n) : CallGenerate(tag, keyBytes)
    \/ CallIsValid
    \/ CallGetPrefix
    \/ \E apiKey \in MaskInputs : CallMask(apiKey)

UtilSpec == Init /\ [][UtilNext]_vars

(***************************************************************************)
(* The Recent Activity specification: two projects of one owner, each with *)
(* a key.  The store holds the Usage Records of earlier requests to the    *)
(* first project, no request is in flight, and further requests arrive,    *)
(* more in all than GET /usage/stats/:projectId lists.                     *)
(***************************************************************************)
\* the requests answered before, and the requests that arrive
EarlierRequests == 9

MaxRecentRequests == 3

\* the UsageLog.create calls that may be in flight when a request arrives
MaxPending == 1

\* the key of the second project
OtherKey == CHOOSE k \in ProductionKeys : k /= UsageKey

\* the hour of the later requests, two days after the first ones
RecentLaterTime == UsageStartTime + 2 * HoursPerDay

\* the hour at which the i-th earlier request was answered
EarlierTime(i) == HoursPerDay + i \div 2

\* the Usage Record of the i-th earlier request: GET /db/query with the
\* first project's key, answered 200 within the hour
EarlierLog(i) ==
    [req |-> i, apiKeyId |-> 1, projectId |-> 1, endpoint |-> "/db/query",
     method |-> "GET", statusCode |-> 200, responseTime |-> 0,
     timestamp |-> EarlierTime(i)]

RecentInit ==
    /\ clock = UsageStartTime
    /\ projects = (1 :> [owner |-> "u1"]) @@ (2 :> [owner |-> "u1"])
    /\ nextProject = 2
    /\ apiKeys = (1 :> KeyDoc(1, UsageKey, "Production Key", "",
                              <<"auth", "database">>, TRUE,
                              EarlierTime(EarlierRequests)))
                  @@ (2 :> KeyDoc(2, OtherKey, "Production Key", "",
                                  <<"auth", "database">>, TRUE, NullDate))
    /\ nextKey = 2
    /\ usageLogs = {EarlierLog(i) : i \in 1..EarlierRequests}
    /\ pendingLogs = {}
    /\ req = [IdleReq EXCEPT !.id = EarlierRequests]
    /\ upd = IdleUpd
    /\ consoleErrors = {}
    /\ crashed = FALSE
    /\ call = IdleCall
    /\ stat = IdleStat

RecentNext ==
    \/ Advance(RecentLaterTime)
    \/ \E h \in {UsageKey, OtherKey} :
          /\ req.id < EarlierRequests + MaxRecentRequests
          /\ Cardinality(pendingLogs) < MaxPending
          /\ StrictStart(h, "GET", << >>)
    \/ ReqFind
    \/ ReqPopulate
    \/ ReqSave(FALSE)
    \/ \E status \in HandlerStatuses : ReqHandler(status)
    \/ \E l \in pendingLogs : LogStored(l)

RecentSpec == RecentInit /\ [][RecentNext]_vars

(***************************************************************************)
(* The Key Store specification: the owner of a project creates, updates    *)
(* and deletes keys, another user tries to, and strict requests present    *)
(* the secrets.                                                            *)
(***************************************************************************)
MaxStoreKeys == 2

MaxStoreRequests == 2

StoreKeyIds == 1..MaxStoreKeys

\* permissions a body may carry: twice the same, and one not of the enum
StorePermissionInputs == {<<"auth", "auth">>, <<"admin">>}

\* bodies of POST /api-keys/generate
StoreGenerateInputs ==
    {Patch({}, "", "", << >>, FALSE)}
        \cup {Patch({"permissions"}, "", "", p, FALSE) :
                  p \in StorePermissionInputs}

\* bodies of PUT /api-keys/:keyId
StorePatchInputs ==
    {Patch({"isActive"}, "", "", << >>, FALSE)}
        \cup {Patch({"permissions"}, "", "", p, FALSE) :
                  p \in StorePermissionInputs}

\* the owner has created the project and generated its first key
StoreInit ==
    /\ clock = UsageStartTime
    /\ projects = 1 :> [owner |-> "u1"]
    /\ nextProject = 1
    /\ apiKeys = 1 :> KeyDoc(1, UsageKey, "Production Key", "",
                             <<"auth", "database">>, TRUE, NullDate)
    /\ nextKey = 1
    /\ usageLogs = {}
    /\ pendingLogs = {}
    /\ req = IdleReq
    /\ upd = IdleUpd
    /\ consoleErrors = {}
    /\ crashed = FALSE
    /\ call = IdleCall
    /\ stat = IdleStat

StoreNext ==
    \/ \E u \in Users, body \in StoreGenerateInputs, key \in ProductionKeys :
           nextKey < MaxStoreKeys /\ GenerateKey(u, 1, body, key)
    \/ \E u \in Users, k \in StoreKeyIds, patch \in StorePatchInputs :
           UpdateBegin(u, k, patch)
    \/ UpdateSave
    \/ \E u \in Users, k \in StoreKeyIds : DeleteKey(u, k)
    \/ \E h \in ProductionKeys :
           req.id < MaxStoreRequests /\ StrictStart(h, "GET", << >>)
    \/ ReqFind
    \/ ReqPopulate
    \/ ReqSave(FALSE)
    \/ ReqHandler(200)
    \/ \E l \in pendingLogs : LogStored(l)

StoreSpec == StoreInit /\ [][StoreNext]_vars

(***************************************************************************)
(* The Header Gate specification: requests of any header shape pass        *)
(* through validateApiKey to the stub handlers of routes/api.js, while a   *)
(* project and its key are stored.                                         *)
(***************************************************************************)
MaxWeakRequests == 3

\* x-api-key values: not sent, a stored secret, a test secret that is not
\* stored, another prefix, and a prefix with nothing or little behind it
WeakKeyInputs == ShapeHeaderInputs \cup {"pk_live_", "pk_test_zz"}

\* x-project-id values: not sent, 24 hex characters, 23, 25, an upper case
\* letter among 24
WeakProjectInputs ==
    ProjectHeaderInputs \cup {"5a5a5a5a5a5a5a5a5a5a5a5a5"}

WeakNext ==
    \/ \E h \in WeakKeyInputs, ph \in WeakProjectInputs :
           req.id < MaxWeakRequests /\ WeakStart(h, ph)
    \/ \E status \in HandlerStatuses : ReqHandler(status)

WeakSpec == StoreInit /\ [][WeakNext]_vars

(***************************************************************************)
(* The Snapshot specification: the owner's GET /usage/stats/:projectId     *)
(* runs its queries one await at a time while requests with the project's  *)
(* key are answered and their Usage Records are inserted.                  *)
(***************************************************************************)
MaxSnapshotRequests == 2

SnapshotNext ==
    \/ \E u \in Users, p \in {1, MalformedId}, period \in {"1d", "30d"} :
           stat.pc = "idle" /\ StatsBegin(u, p, period)
    \/ StatsTotalCalls
    \/ StatsTodayCalls
    \/ StatsTopEndpoints
    \/ StatsErrorCalls
    \/ StatsStatusCodes
    \/ StatsAvgResponseTime
    \/ StatsRespond
    \/ req.id < MaxSnapshotRequests /\ StrictStart(UsageKey, "GET", << >>)
    \/ ReqFind
    \/ ReqPopulate
    \/ ReqSave(FALSE)
    \/ \E status \in HandlerStatuses : ReqHandler(status)
    \/ \E l \in pendingLogs : LogStored(l)

SnapshotSpec == UsageInit /\ [][SnapshotNext]_vars


(***************************************************************************)
(* Properties.                                                             *)
(***************************************************************************)
Range(seq) == {seq[i] : i \in 1..Len(seq)}

\* a Key Record with this secret is stored and is inactive
StoredInactive(header) ==
    \E id \in DOMAIN apiKeys :
        apiKeys[id].key = header /\ ~apiKeys[id].isActive

\* the step in which a store-backed gate gets the answer of its findOne
LookupStep == req.pc = "find" /\ req'.pc /= "find"

\* C1: a strict authentication whose lookup finds the key's record stored with
\* isActive = false (a record is inactive only once an owner update that set
\* isActive to false has been saved) answers 401 "Invalid or inactive API
\* key", does not call next and attaches no key and no project.
C1_InactiveKeyRejected ==
    [][(LookupStep /\ req.gate = "strict" /\ StoredInactive(req.header))
          => /\ req'.pc = "done"
             /\ req'.status = 401
             /\ req'.error = "Invalid or inactive API key"
             /\ ~req'.nextCalled
             /\ req'.apiKey = "none"
             /\ req'.projectId = "none"
             /\ req'.project = "none"]_vars

C1_Witness ==
    /\ req.gate = "strict"
    /\ req.pc = "done"
    /\ req.error = "Invalid or inactive API key"
    /\ StoredInactive(req.header)
    /\ HasKeyPrefix(req.header)

\* C2: a stub handler of routes/api.js has run for a request only if the
\* gate resolved the request's key to an active stored Key Record and the
\* permission gate was passed.
C2_StubBehindGates ==
    (req.gate = "weak" /\ req.handlerRan)
        => /\ req.keyDoc.found
           /\ req.keyDoc.doc.isActive
           /\ req.permChecked

\* the permission gate called next for the request
PermissionNextCalled ==
    req.permChecked /\ (req.pc = "handler" \/ req.handlerRan)

\* C3: once checkApiKeyPermissions(R) has run for a request, it called next
\* iff no key is attached, or R is empty, or every element of R is among the
\* attached key's permissions; otherwise the response is 403 "Insufficient
\* permissions" and the handler does not run.
C3_PermissionGate ==
    req.permChecked
        => /\ PermissionNextCalled
              <=> \/ req.apiKey = "none"
                  \/ req.required = << >>
                  \/ Range(req.required)
                        \subseteq Range(req.keyDoc.doc.permissions)
           /\ ~PermissionNextCalled
              => /\ req.status = 403
                 /\ req.error = "Insufficient permissions"
                 /\ req.pc = "done"
                 /\ ~req.handlerRan

C3_Witness ==
    /\ req.permChecked
    /\ req.apiKey = "doc"
    /\ req.required /= << >>
    /\ req.handlerRan

\* the step in which the permission gate denies the request
DenialStep == req.status /= 403 /\ req'.status = 403 /\ req'.permChecked

\* C4 as claimed: at every denial the 403 body's required is the required list
\* and its current is the capability set stored for the key at that moment.
C4_CurrentIsStored ==
    [][DenialStep
          => /\ req'.bodyRequired = req'.required
             /\ req'.keyDoc.id \in DOMAIN apiKeys'
             /\ req'.bodyCurrent = apiKeys'[req'.keyDoc.id].permissions]_vars

\* C4 amended: the record a gate attaches carries the capability set that was
\* stored for the key when the gate looked it up, and at every denial the 403
\* body's required is the required list and its current is that attached set.
C4_CurrentIsLookedUp ==
    [][/\ (LookupStep /\ req'.keyDoc.found)
          => /\ req'.keyDoc.id \in DOMAIN apiKeys
             /\ req'.keyDoc.doc.permissions
                    = apiKeys[req'.keyDoc.id].permissions
       /\ (req.keyDoc.found /\ req'.id = req.id)
          => req'.keyDoc.doc.permissions = req.keyDoc.doc.permissions
       /\ DenialStep
          => /\ req'.bodyRequired = req'.required
             /\ req'.bodyCurrent = req'.keyDoc.doc.permissions]_vars

\* a denial whose current differs from what is stored by then
C4_Witness ==
    /\ req.status = 403
    /\ req.permChecked
    /\ req.keyDoc.id \in DOMAIN apiKeys
    /\ req.bodyCurrent /= apiKeys[req.keyDoc.id].permissions

\* the UsageLog.create calls and documents of a request
LogsOf(id) == {l \in usageLogs \cup pendingLogs : l.req = id}

\* C5: a request that passed trackUsage and completed with no key or no
\* project on its context has caused no UsageLog.create and no Usage Record.
C5_NoContextNoRecord ==
    (req.tracked /\ req.pc = "done"
        /\ (req.apiKey = "none" \/ req.projectId = "none"))
        => LogsOf(req.id) = {}

C5_Witness ==
    /\ req.tracked
    /\ req.pc = "done"
    /\ req.apiKey = "none"
    /\ req.handlerRan
    /\ req.status = 404

\* the store failed the UsageLog.create of the request
StoreFailedLog(id) ==
    \E e \in consoleErrors : e.req = id /\ e.name = "MongoError"

\* C6: a request that completed with a resolved key and project, whose
\* UsageLog.create has settled and was not failed by the store, has exactly
\* one Usage Record, which names the attached key and project.
C6_ExactlyOneRecord ==
    (req.tracked /\ req.pc = "done" /\ req.apiKey = "doc"
        /\ req.projectId = "doc"
        /\ ~(\E l \in pendingLogs : l.req = req.id)
        /\ ~StoreFailedLog(req.id))
        => /\ Cardinality({l \in usageLogs : l.req = req.id}) = 1
           /\ \A l \in usageLogs :
                 l.req = req.id
                    => /\ l.apiKeyId = req.keyDoc.id
                       /\ l.projectId = req.keyDoc.project.id

\* the UsageLog.create the request issued at its res.end has been rejected:
\* it is neither pending nor stored
CreateRejected ==
    /\ req.tracked
    /\ req.pc = "done"
    /\ req.apiKey = "doc"
    /\ req.projectId = "doc"
    /\ LogsOf(req.id) = {}

\* C7: when the UsageLog.create of a request was rejected, the response is
\* the one the handler computed, the original res.end was invoked once, the
\* error was logged and nothing was left unhandled.
C7_RejectionAbsorbed ==
    CreateRejected
        => /\ req.ended = 1
           /\ req.sent = req.status
           /\ req.status \in HandlerStatuses \cup {403}
           /\ \E e \in consoleErrors : e.req = req.id
           /\ ~crashed

C7_Witness ==
    /\ CreateRejected
    /\ req.handlerRan
    /\ req.method = "HEAD"

\* C8: whenever a response went through the res.end of trackUsage, the
\* original res.end has been invoked with it, also while the UsageLog.create
\* it issued has not settled, and after it was stored or rejected.
C8_EndNotAwaited ==
    (req.tracked /\ req.status /= 0)
        => /\ req.pc = "done"
           /\ req.ended = 1
           /\ req.sent = req.status

C8_Witness ==
    /\ req.tracked
    /\ req.ended = 1
    /\ \E l \in pendingLogs : l.req = req.id

\* C9: once a store-backed gate found an active key and its project, the
\* request is not failed by the gate: after the save the key and project are
\* attached and next was called, with neither 401 nor 500.
C9_SaveFailureTolerated ==
    (req.gate \in {"strict", "optional"} /\ req.keyDoc.found
        /\ req.keyDoc.project.found /\ req.pc \in {"handler", "done"})
        => /\ req.nextCalled
           /\ req.apiKey = "doc"
           /\ req.project = "doc"
           /\ req.status \notin {401, 500}

\* the optional gate is past its lookup and found no active key
OptionalWithoutKey ==
    /\ req.gate = "optional"
    /\ req.pc \in {"handler", "done"}
    /\ ~req.keyDoc.found

\* C10 as claimed: the optional gate then called next with nothing attached.
C10_OptionalNeverFails ==
    OptionalWithoutKey
        => /\ req.nextCalled
           /\ req.apiKey = "none"
           /\ req.projectId = "none"
           /\ req.status /= 401

\* C10 amended: with the header missing the optional gate calls next with
\* nothing attached; with a secret that is not found or is inactive it
\* answers 401 "Invalid or inactive API key", does not call next and
\* attaches nothing.
C10_OptionalFailsOnlyOnBadKey ==
    OptionalWithoutKey
        => /\ req.apiKey = "none"
           /\ req.projectId = "none"
           /\ req.project = "none"
           /\ req.header = NoHeader
              => req.nextCalled /\ req.status \notin {401, 500}
           /\ req.header /= NoHeader
              => /\ ~req.nextCalled
                 /\ req.pc = "done"
                 /\ req.status = 401
                 /\ req.error = "Invalid or inactive API key"

C10_Witness ==
    /\ req.gate = "optional"
    /\ req.status = 401
    /\ StoredInactive(req.header)

\* the text t is 100 * e / n rounded to 2 decimals
IsPercentRounded(t, e, n) ==
    \E h \in {(100 * 100 * e) \div n, (100 * 100 * e) \div n + 1} :
        /\ 2 * n * h - 2 * 100 * 100 * e \in (-n)..n
        /\ t = Hundredths(h)

\* C11: when the N >= 1 Usage Records stored for a project all come from
\* requests authenticated with one key and all lie within the period window,
\* GET /usage/stats/:projectId and GET /usage/keys/:keyId answer the owner
\* with totalCalls = N and errorRate = 100 * (records with statusCode >= 400)
\* / N rounded to 2 decimals.
C11_TotalsAndErrorRate ==
    \A p \in DOMAIN projects, k \in DOMAIN apiKeys, period \in PeriodInputs :
        LET records == {l \in usageLogs : l.projectId = p \/ l.apiKeyId = k}
            N == Cardinality(records)
            errors == Cardinality({l \in records : l.statusCode >= 400})
            byProject == StatsResult(usageLogs, projects[p].owner, p, period)
            byKey == KeyUsageResult(usageLogs, projects[p].owner, k, period)
        IN  (/\ apiKeys[k].projectId = p
             /\ N >= 1
             /\ \A l \in records :
                   /\ l.projectId = p
                   /\ l.apiKeyId = k
                   /\ l.timestamp >= clock - PeriodDays(period) * HoursPerDay)
                => /\ byProject.resp.status = 200
                   /\ byProject.stats.totalCalls = N
                   /\ IsPercentRounded(byProject.stats.errorRate, errors, N)
                   /\ byKey.resp.status = 200
                   /\ byKey.stats.totalCalls = N
                   /\ IsPercentRounded(byKey.stats.errorRate, errors, N)

\* three requests with statuses 200, 200 and 404 are stored and period=1d
\* gives totalCalls 3 and errorRate "33.33"
C11_Witness ==
    /\ Cardinality(usageLogs) = 3
    /\ Cardinality({l \in usageLogs : l.statusCode = 200}) = 2
    /\ Cardinality({l \in usageLogs : l.statusCode = 404}) = 1
    /\ StatsResult(usageLogs, "u1", 1, "1d").stats.totalCalls = 3
    /\ StatsResult(usageLogs, "u1", 1, "1d").stats.errorRate = "33.33"
    /\ KeyUsageResult(usageLogs, "u1", 1, "1d").stats.totalCalls = 3
    /\ KeyUsageResult(usageLogs, "u1", 1, "1d").stats.errorRate = "33.33"

\* the records of a project or of a key that lie within a window of days
InProjectWindow(p, days) ==
    {l \in usageLogs : l.projectId = p
                          /\ l.timestamp >= clock - days * HoursPerDay}

InKeyWindow(k, days) ==
    {l \in usageLogs : l.apiKeyId = k
                          /\ l.timestamp >= clock - days * HoursPerDay}

\* the window fields of the stats response are the zero values
ZeroWindowStats(stats) ==
    /\ stats.totalCalls = 0
    /\ stats.todayCalls = 0
    /\ stats.errorRate = "0"
    /\ stats.avgResponseTime = 0
    /\ stats.topEndpoints = {}
    /\ stats.statusCodeStats = {}

\* the key usage response is the zero object
ZeroKeyStats(stats) ==
    /\ stats.totalCalls = 0
    /\ stats.errorCount = 0
    /\ stats.errorRate = "0"
    /\ stats.avgResponseTime = [sum |-> 0, n |-> 1]
    /\ stats.lastUsed = NullDate

\* the projects and keys of an owner
Owned(u) == {p \in DOMAIN projects : projects[p].owner = u}

OwnedKeys(u) == {k \in DOMAIN apiKeys : apiKeys[k].projectId \in Owned(u)}

\* C12 as claimed: when no Usage Record matches the project or key and the
\* window, the three endpoints answer the owner 200 with every structure
\* zero-valued or empty, recentActivity and hourlyUsage included.
C12_ZeroStructures ==
    \A u \in Users :
        /\ \A p \in Owned(u), period \in PeriodInputs :
              InProjectWindow(p, PeriodDays(period)) = {}
                  => LET r == StatsResult(usageLogs, u, p, period)
                     IN  /\ r.resp.status = 200
                         /\ ZeroWindowStats(r.stats)
                         /\ r.stats.recentActivity = << >>
        /\ \A p \in Owned(u), days \in DaysInputs :
              InProjectWindow(p, days) = {}
                  => LET r == AnalyticsResult(usageLogs, u, p, days)
                     IN  /\ r.resp.status = 200
                         /\ r.analytics.dailyUsage = {}
                         /\ r.analytics.hourlyUsage = {}
                         /\ r.analytics.endpointPerformance = {}
        /\ \A k \in OwnedKeys(u), period \in PeriodInputs :
              InKeyWindow(k, PeriodDays(period)) = {}
                  => LET r == KeyUsageResult(usageLogs, u, k, period)
                     IN  r.resp.status = 200 /\ ZeroKeyStats(r.stats)

\* C12 amended: the endpoints always answer the owner 200; the fields
\* computed over the window are zero-valued or empty when no record matches
\* the window; recentActivity, which has no window, is empty when no record
\* of the project is stored, and hourlyUsage, which is computed over the
\* current day, is empty when no record of the project is of today.
C12_ZeroPerFieldWindow ==
    \A u \in Users :
        /\ \A p \in Owned(u), period \in PeriodInputs :
              LET r == StatsResult(usageLogs, u, p, period)
              IN  /\ r.resp.status = 200
                  /\ InProjectWindow(p, PeriodDays(period)) = {}
                        => ZeroWindowStats(r.stats)
                  /\ {l \in usageLogs : l.projectId = p} = {}
                        <=> r.stats.recentActivity = << >>
        /\ \A p \in Owned(u), days \in DaysInputs :
              LET r == AnalyticsResult(usageLogs, u, p, days)
              IN  /\ r.resp.status = 200
                  /\ InProjectWindow(p, days) = {}
                        => /\ r.analytics.dailyUsage = {}
                           /\ r.analytics.endpointPerformance = {}
                  /\ {l \in usageLogs : l.projectId = p
                                           /\ l.timestamp >= Today} = {}
                        <=> r.analytics.hourlyUsage = {}
        /\ \A k \in OwnedKeys(u), period \in PeriodInputs :
              LET r == KeyUsageResult(usageLogs, u, k, period)
              IN  /\ r.resp.status = 200
                  /\ InKeyWindow(k, PeriodDays(period)) = {}
                        => ZeroKeyStats(r.stats)

\* no record matches the 1d window, the stats are zero-valued and the
\* recent activity still lists a record of the project
C12_Witness ==
    /\ usageLogs /= {}
    /\ InProjectWindow(1, 1) = {}
    /\ StatsResult(usageLogs, "u1", 1, "1d").resp.status = 200
    /\ ZeroWindowStats(StatsResult(usageLogs, "u1", 1, "1d").stats)
    /\ StatsResult(usageLogs, "u1", 1, "1d").stats.recentActivity /= << >>
    /\ ZeroKeyStats(KeyUsageResult(usageLogs, "u1", 1, "1d").stats)

\* the stored records whose timestamp is at most 90 days before the clock
Unexpired == {l \in usageLogs : clock - l.timestamp <= ExpireAfterHours}

WindowStats(stats) == [stats EXCEPT !.recentActivity = << >>]

StoredSecrets == {apiKeys[id].key : id \in DOMAIN apiKeys}

\* the first 8 characters, "..." and the last 4 characters of a secret
MaskedForm(key) ==
    SubSeq(key, 1, 8) \o "..." \o SubSeq(key, Len(key) - 3, Len(key))

\* C14: in every state the key store reaches by creates, updates and
\* deletes, the list response carries no key field, the get and the update
\* response carry the masked form of the key, and none of them carries a
\* stored secret.
C14_SecretOnlyAtCreation ==
    /\ \A u \in Users, p \in ProjectIds \cup {MalformedId} :
          \A item \in ListKeysResult(u, p).apiKeys : item.doc.key = ""
    /\ \A u \in Users, k \in KeyIds \cup {MalformedId} :
          LET r == GetKeyResult(u, k)
          IN  /\ r.apiKey.key \notin StoredSecrets
              /\ r.resp.status = 200
                    => r.apiKey.key = MaskedForm(apiKeys[k].key)
    /\ upd.pc = "save"
          => /\ UpdateSaveBody.key = MaskedForm(upd.key)
             /\ UpdateSaveBody.key \notin StoredSecrets \cup {upd.key}

\* the owner gets the masked form of a stored secret from GET /api-keys/:keyId
\* and no key from the list, while an update of the key is about to answer
C14_Witness ==
    /\ 1 \in DOMAIN apiKeys
    /\ GetKeyResult(projects[1].owner, 1).resp.status = 200
    /\ GetKeyResult(projects[1].owner, 1).apiKey.key = "pk_live_...a1a1"
    /\ ListKeysResult(projects[1].owner, 1).apiKeys /= {}
    /\ upd.pc = "save"
    /\ UpdateSaveResult.resp.status = 200

\* the bodies of POST /api-keys/generate that pass validateApiKeyCreation
ValidGenerateInputs ==
    {body \in GenerateInputs :
        "permissions" \in body.has => ValidPermissions(body.permissions)}

C16_GeneratedIsValid ==
    /\ call.fn = "isValidApiKeyFormat" => call.out = "true"
    /\ call.fn = "getApiKeyPrefix" => call.out = call.tag

\* C16 amended: for every tag, the secret generated with byte length 32 is
\* accepted by isValidApiKeyFormat and getApiKeyPrefix returns its tag; a
\* secret generated with any other byte length is rejected and
\* getApiKeyPrefix returns null for it.
C16_ValidIffDefaultLength ==
    /\ call.fn = "isValidApiKeyFormat"
          => (call.out = "true" <=> call.length = 32)
    /\ call.fn = "getApiKeyPrefix"
          => call.out = IF call.length = 32 THEN call.tag ELSE ""
    /\ call.fn \in {"isValidApiKeyFormat", "getApiKeyPrefix"}
          => /\ call.tag \in {"live", "test"}
             /\ Len(call.arg) = Len("pk_live_") + 2 * call.length
             /\ SubSeq(call.arg, 1, 8) = "pk_" \o call.tag \o "_"

\* a test secret of 32 bytes gave the prefix "test"
C16_Witness ==
    /\ call.fn = "getApiKeyPrefix"
    /\ call.tag = "test"
    /\ call.length = 32
    /\ call.out = "test"

\* C17 as claimed: maskApiKey of a string of fewer than 12 characters is
\* "***"; of a longer one it is the first 8 characters, "..." and the last 4
\* characters, and never the string itself.
C17_MaskNeverIdentity ==
    call.fn = "maskApiKey"
        => /\ Len(call.arg) < 12 => call.out = "***"
           /\ Len(call.arg) >= 12
                 => /\ call.out = MaskedForm(call.arg)
                    /\ call.out /= call.arg

\* C17 amended: as claimed, but the output equals the string exactly when
\* the string has 15 characters of which the 9th to the 11th are "...";
\* it differs from every string that isValidApiKeyFormat accepts.
C17_MaskIdentityOnlyOnDots ==
    call.fn = "maskApiKey"
        => /\ Len(call.arg) < 12 => call.out = "***"
           /\ Len(call.arg) >= 12
                 => /\ call.out = MaskedForm(call.arg)
                    /\ call.out = call.arg
                          <=> /\ Len(call.arg) = 15
                              /\ SubSeq(call.arg, 9, 11) = "..."
           /\ isValidApiKeyFormat(call.arg) => call.out /= call.arg

\* maskApiKey returned its 15-character argument unchanged
C17_Witness ==
    /\ call.fn = "maskApiKey"
    /\ Len(call.arg) = 15
    /\ call.out = call.arg

\* the step in which a strict request arrives
StrictArrival == req'.gate = "strict" /\ req'.id /= req.id

\* the step in which the gate of a strict request calls next
StrictNext == req'.gate = "strict" /\ req'.nextCalled /\ ~req.nextCalled

\* the step in which the populate of a strict request is answered
StrictPopulate ==
    req.gate = "strict" /\ req.pc = "populate" /\ req'.pc /= req.pc

\* a step that changes the lastUsed of a stored Key Record
LastUsedWritten ==
    \E id \in DOMAIN apiKeys \cap DOMAIN apiKeys' :
        apiKeys'[id].lastUsed /= apiKeys[id].lastUsed

\* the request was answered by the gate and has nothing on its context
GateRefused(r, error) ==
    /\ r.pc = "done"
    /\ r.status = 401
    /\ r.error = error
    /\ ~r.nextCalled
    /\ r.apiKey = "none"
    /\ r.projectId = "none"
    /\ r.project = "none"
    /\ r.keyDoc.modified = {}

\* C18: apiKeyAuth attaches the record its lookup found, which is a stored
\* record with the presented secret and isActive = true, and the project its
\* populate found, which is stored under the record's projectId; it calls
\* next only with that record, that project and the project's id on the
\* context.  A missing header is answered 401 "API key required" and a
\* record whose project is missing 401 "Associated project not found", both
\* without next and with nothing attached; lastUsed is written only by the
\* save of a request whose record and project were found.
C18_StrictGate ==
    [][/\ (LookupStep /\ req.gate = "strict" /\ req'.keyDoc.found)
          => /\ req'.keyDoc.id \in DOMAIN apiKeys
             /\ req'.keyDoc.doc = apiKeys[req'.keyDoc.id]
             /\ req'.keyDoc.doc.key = req.header
             /\ req'.keyDoc.doc.isActive
       /\ StrictPopulate
          => IF req.keyDoc.doc.projectId \in DOMAIN projects
             THEN /\ req'.pc = "save"
                  /\ req'.keyDoc.project.found
                  /\ req'.keyDoc.project.id = req.keyDoc.doc.projectId
             ELSE /\ GateRefused(req', "Associated project not found")
                  /\ apiKeys' = apiKeys
       /\ StrictNext
          => /\ req.pc = "save"
             /\ req.keyDoc.found
             /\ req.keyDoc.doc.key = req.header
             /\ req.keyDoc.doc.isActive
             /\ req.keyDoc.project.found
             /\ req.keyDoc.project.id = req.keyDoc.doc.projectId
             /\ req'.keyDoc.id = req.keyDoc.id
             /\ req'.keyDoc.project = req.keyDoc.project
             /\ req'.apiKey = "doc"
             /\ req'.project = "doc"
             /\ req'.projectId = "doc"
       /\ (StrictArrival /\ req'.header = NoHeader)
          => GateRefused(req', "API key required") /\ apiKeys' = apiKeys
       /\ LastUsedWritten
          => /\ req.pc = "save"
             /\ req.keyDoc.found
             /\ req.keyDoc.project.found
             /\ req'.status /= 401]_vars

\* a strict request found its record, not the record's project, and was
\* answered 401 with the stored lastUsed still null
C18_Witness ==
    /\ req.gate = "strict"
    /\ req.keyDoc.found
    /\ GateRefused(req, "Associated project not found")
    /\ req.keyDoc.id \in DOMAIN apiKeys
    /\ apiKeys[req.keyDoc.id].lastUsed = NullDate

\* the requests to POST /api-keys/generate that reach ApiKey.create: a body
\* that passes validation, sent by the owner of an existing project
ReachesCreate(u, p, body) ==
    /\ body \in ValidGenerateInputs
    /\ p \in DOMAIN projects
    /\ projects[p].owner = u

\* C19 as claimed: a request that reaches ApiKey.create is answered 409 only
\* if its generated secret and a second, freshly generated one are both the
\* secret of a stored Key Record.
C19_RetriedOnce ==
    \A u \in Users, p \in ProjectIds, body \in GenerateInputs,
       key \in ProductionKeys, retry \in ProductionKeys :
        (ReachesCreate(u, p, body)
            /\ GenerateKeyResult(u, p, body, key).resp.status = 409)
        => (key \in StoredSecrets /\ retry \in StoredSecrets)

\* C19 (amended): a request that reaches ApiKey.create is answered 409
\* "Duplicate API key" exactly when the one secret it generated is the secret
\* of a stored Key Record, whatever other secrets are free, and 201
\* otherwise; the 409 returns no record and leaves every stored Key Record
\* as it was, adding none.
C19_CollisionSurfacedAtOnce ==
    \A u \in Users, p \in ProjectIds, body \in GenerateInputs,
       key \in ProductionKeys :
        LET r == GenerateKeyResult(u, p, body, key)
        IN  ReachesCreate(u, p, body)
            => /\ r.resp.status \in {201, 409}
               /\ r.resp.status = 409 <=> key \in StoredSecrets
               /\ r.resp.status = 409
                     => /\ r.resp.error = "Duplicate API key"
                        /\ r.apiKey = NoDoc
                        /\ r.apiKeys = apiKeys

\* the owner's request draws the secret of a stored Key Record while another
\* secret is free, and is answered 409
C19_Witness ==
    \E u \in Users, p \in ProjectIds, body \in GenerateInputs,
       key \in ProductionKeys, free \in ProductionKeys :
        /\ ReachesCreate(u, p, body)
        /\ key \in StoredSecrets
        /\ free \notin StoredSecrets
        /\ GenerateKeyResult(u, p, body, key).resp.status = 409

\* no owner: of a project that is not stored
NoOwner == ""

\* the three failures of an owner-scoped request of user u, for the
\* identifier id of a collection with the stored identifiers given, whose
\* document belongs to owner
ThreeFailures(resp, u, id, stored, owner) ==
    /\ id = MalformedId => resp.status = 400
    /\ (id /= MalformedId /\ id \notin stored) => resp.status = 404
    /\ (id \in stored /\ owner \notin {u, NoOwner}) => resp.status = 403

\* the bodies of PUT /api-keys/:keyId that pass validateApiKeyUpdate
ValidPatchInputs ==
    {patch \in PatchInputs :
        "permissions" \in patch.has => ValidPermissions(patch.permissions)}

\* the owner of a stored project
ProjectOwner(p) ==
    IF p \in DOMAIN projects THEN projects[p].owner ELSE NoOwner

\* the owner of the project of a stored Key Record whose project is stored
KeyOwner(k) ==
    IF k \in DOMAIN apiKeys
    THEN ProjectOwner(apiKeys[k].projectId) ELSE NoOwner

\* C20: every owner-scoped endpoint of the key store and of the usage
\* queries answers 400 to a malformed identifier, 404 to the identifier of a
\* project or Key Record that is not stored, and 403 to a stored one that
\* the caller does not own.
C20_ThreeFailuresDistinguished ==
    \A u \in Users :
        /\ \A p \in ProjectIds \cup {MalformedId} :
              /\ ThreeFailures(ListKeysResult(u, p).resp, u, p,
                               DOMAIN projects, ProjectOwner(p))
              /\ \A body \in GenerateInputs, key \in ProductionKeys :
                    ThreeFailures(GenerateKeyResult(u, p, body, key).resp,
                                  u, p, DOMAIN projects, ProjectOwner(p))
              /\ \A period \in PeriodInputs :
                    ThreeFailures(StatsResult(usageLogs, u, p, period).resp,
                                  u, p, DOMAIN projects, ProjectOwner(p))
              /\ \A days \in DaysInputs :
                    ThreeFailures(AnalyticsResult(usageLogs, u, p, days).resp,
                                  u, p, DOMAIN projects, ProjectOwner(p))
        /\ \A k \in KeyIds \cup {MalformedId} :
              /\ ThreeFailures(GetKeyResult(u, k).resp, u, k,
                               DOMAIN apiKeys, KeyOwner(k))
              /\ ThreeFailures(DeleteKeyResult(u, k).resp, u, k,
                               DOMAIN apiKeys, KeyOwner(k))
              /\ \A patch \in ValidPatchInputs :
                    ThreeFailures(UpdateBeginResult(u, k, patch), u, k,
                                  DOMAIN apiKeys, KeyOwner(k))
              /\ \A period \in PeriodInputs :
                    ThreeFailures(KeyUsageResult(usageLogs, u, k, period).resp,
                                  u, k, DOMAIN apiKeys, KeyOwner(k))

\* the days of the window that the period parameter asks for
ClaimedDays(period) ==
    CASE period = "1d" -> 1
      [] period = "7d" -> 7
      [] period = "90d" -> 90
      [] OTHER -> 30

\* the fields of the stats response that are computed over the window
WindowFields(stats) ==
    [totalCalls |-> stats.totalCalls, errorRate |-> stats.errorRate,
     avgResponseTime |-> stats.avgResponseTime,
     topEndpoints |-> stats.topEndpoints,
     statusCodeStats |-> stats.statusCodeStats]

\* the stored records with now - days <= timestamp < now
HalfOpenWindow(days) ==
    {l \in usageLogs : /\ l.timestamp >= clock - days * HoursPerDay
                       /\ l.timestamp < clock}

\* the stored records with now - days <= timestamp <= now
ClosedWindow(days) ==
    {l \in usageLogs : /\ l.timestamp >= clock - days * HoursPerDay
                       /\ l.timestamp <= clock}

\* C21 as claimed: the window fields of the stats and the key usage, for
\* every period, are those of the records with now - p <= timestamp < now.
C21_WindowHalfOpen ==
    \A u \in Users, period \in PeriodInputs :
        LET W == HalfOpenWindow(ClaimedDays(period))
        IN  /\ \A p \in Owned(u) :
                  WindowFields(StatsResult(usageLogs, u, p, period).stats)
                      = WindowFields(StatsResult(W, u, p, period).stats)
            /\ \A k \in OwnedKeys(u) :
                  KeyUsageResult(usageLogs, u, k, period)
                      = KeyUsageResult(W, u, k, period)

\* C21 (amended): the queries bound the timestamp from below only.  The
\* window fields of the stats and the key usage are those of the stored
\* records with timestamp >= now - p, which are the records with
\* now - p <= timestamp <= now as no stored record is stamped later than the
\* query reads it; a record stamped at the instant now is counted:
\* totalCalls is the number of these records of the project or key; p is 1,
\* 7, 30 or 90 days for '1d', '7d', '30d', '90d' and 30 days for any other
\* value.
C21_WindowClosed ==
    /\ \A l \in usageLogs : l.timestamp <= clock
    /\ \A u \in Users, period \in PeriodInputs :
        LET W == ClosedWindow(ClaimedDays(period))
        IN  /\ \A p \in Owned(u) :
                  LET stats == StatsResult(usageLogs, u, p, period).stats
                  IN  /\ stats.totalCalls
                            = Cardinality({l \in W : l.projectId = p})
                      /\ WindowFields(stats)
                            = WindowFields(StatsResult(W, u, p, period).stats)
            /\ \A k \in OwnedKeys(u) :
                  LET r == KeyUsageResult(usageLogs, u, k, period)
                  IN  /\ r.stats.totalCalls
                            = Cardinality({l \in W : l.apiKeyId = k})
                      /\ r = KeyUsageResult(W, u, k, period)

\* one record is stamped at the instant of the query and another is older
\* than a day: period '1d' counts the first and not the second, the unknown
\* period '1y' counts what '30d' counts
C21_Witness ==
    /\ \E l \in usageLogs : l.timestamp = clock
    /\ \E l \in usageLogs : l.timestamp < clock - HoursPerDay
    /\ StatsResult(usageLogs, "u1", 1, "1d").stats.totalCalls
           = Cardinality({l \in usageLogs : l.timestamp = clock})
    /\ KeyUsageResult(usageLogs, "u1", 1, "1d").stats.totalCalls
           = Cardinality({l \in usageLogs : l.timestamp = clock})
    /\ StatsResult(usageLogs, "u1", 1, "1y")
           = StatsResult(usageLogs, "u1", 1, "30d")

\* the list is made of at most 10 distinct stored records of project p,
\* newest first, and no stored record of p that it leaves out is newer than
\* one it holds
IsNewestTen(recent, p) ==
    LET all == {l \in usageLogs : l.projectId = p}
        listed == {l \in all : \E i \in DOMAIN recent : recent[i].id = l.req}
    IN  /\ Len(recent) <= RecentLimit
        /\ Len(recent) = Cardinality(listed)
        /\ \A i \in DOMAIN recent :
              \E l \in all :
                  /\ l.req = recent[i].id
                  /\ l.timestamp = recent[i].timestamp
                  /\ l.endpoint = recent[i].endpoint
                  /\ l.method = recent[i].method
                  /\ l.statusCode = recent[i].statusCode
                  /\ l.responseTime = recent[i].responseTime
        /\ \A i, j \in DOMAIN recent :
              i < j => recent[i].timestamp >= recent[j].timestamp
        /\ \A l \in all \ listed, i \in DOMAIN recent :
              l.timestamp <= recent[i].timestamp

\* C22 as claimed: recentActivity is the newest ten records of the project,
\* newest first, and every record it holds lies inside the period's window.
C22_RecentInsideWindow ==
    \A u \in Users : \A p \in Owned(u), period \in PeriodInputs :
        LET recent == StatsResult(usageLogs, u, p, period).stats.recentActivity
        IN  /\ IsNewestTen(recent, p)
            /\ \A i \in DOMAIN recent :
                  recent[i].timestamp
                      >= clock - ClaimedDays(period) * HoursPerDay

\* C22 (amended): recentActivity holds at most 10 Usage Records, all of the
\* queried project, newest first, with no stored record of the project newer
\* than a listed one left out; it holds 10 whenever the project has 10
\* stored records, and it is the same list for every period: the period's
\* window does not apply to it.
C22_RecentNewestTen ==
    \A u \in Users : \A p \in Owned(u), period \in PeriodInputs :
        LET recent == StatsResult(usageLogs, u, p, period).stats.recentActivity
            all == {l \in usageLogs : l.projectId = p}
        IN  /\ IsNewestTen(recent, p)
            /\ Cardinality(all) >= RecentLimit => Len(recent) = RecentLimit
            /\ Cardinality(all) < RecentLimit => Len(recent) = Cardinality(all)
            /\ recent = StatsResult(usageLogs, u, p, "30d").stats.recentActivity

\* the first project has more than 10 stored records and another project
\* has one too; the list for period '1d' holds 10 of them, and among them
\* one that is older than a day
C22_Witness ==
    LET recent == StatsResult(usageLogs, "u1", 1, "1d").stats.recentActivity
    IN  /\ Cardinality({l \in usageLogs : l.projectId = 1}) > RecentLimit
        /\ \E l \in usageLogs : l.projectId = 2
        /\ Len(recent) = RecentLimit
        /\ \E i \in DOMAIN recent :
              recent[i].timestamp < clock - HoursPerDay
        /\ StatsResult(usageLogs, "u1", 1, "1d").stats.totalCalls
              < RecentLimit

\* the fields of a Key Record that a PUT /api-keys/:keyId may set
OwnerFields(doc) ==
    <<doc.name, doc.description, doc.permissions, doc.isActive>>

\* the users that do not own the project of the stored Key Record k, when
\* that project is stored
NonOwners(k) == {u \in Users : KeyOwner(k) \notin {u, NoOwner}}

\* C23 as claimed: every PUT and DELETE on /api-keys/:keyId by a user who
\* does not own the key's project responds 403 and leaves the store as it
\* is.
C23_NonOwnerGets403 ==
    \A k \in DOMAIN apiKeys : \A u \in NonOwners(k) :
        /\ DeleteKeyResult(u, k).resp.status = 403
        /\ DeleteKeyResult(u, k).apiKeys = apiKeys
        /\ \A patch \in PatchInputs :
              UpdateBeginResult(u, k, patch).status = 403

\* the DELETE and the PUT of a user who does not own the key's project are
\* answered 403, the PUT 400 when its body fails validation, and neither
\* changes the store nor goes on to save
NonOwnerRefused ==
    \A k \in DOMAIN apiKeys : \A u \in NonOwners(k) :
        /\ DeleteKeyResult(u, k).resp.status = 403
        /\ DeleteKeyResult(u, k).apiKeys = apiKeys
        /\ \A patch \in PatchInputs :
              UpdateBeginResult(u, k, patch).status
                  = IF patch \in ValidPatchInputs THEN 403 ELSE 400

\* C23 (amended): a DELETE on /api-keys/:keyId by a user who does not own
\* the key's project responds 403, and so does a PUT unless its body fails
\* validation, which is checked first and answered 400; neither changes the
\* store nor reaches a save, in every state that a change of the Key Store
\* or of the projects leads to.  A PUT reaches its save only for the owner of
\* the project, a Key Record is removed only when it has an owner whose
\* DELETE removes it, and name, description, permissions and isActive of a
\* stored record change only in the save of such a PUT.
C23_OnlyOwnerChanges ==
    [][/\ (apiKeys' /= apiKeys \/ projects' /= projects) => NonOwnerRefused'
       /\ (upd.pc = "idle" /\ upd'.pc = "save")
          => /\ upd'.keyId \in DOMAIN apiKeys
             /\ KeyOwner(upd'.keyId) /= NoOwner
             /\ NonOwners(upd'.keyId) = Users \ {KeyOwner(upd'.keyId)}
             /\ UpdateBeginResult(KeyOwner(upd'.keyId), upd'.keyId,
                                  upd'.set).status = 0
       /\ \A k \in DOMAIN apiKeys \ DOMAIN apiKeys' :
             /\ KeyOwner(k) /= NoOwner
             /\ DeleteKeyResult(KeyOwner(k), k).apiKeys = apiKeys'
       /\ \A k \in DOMAIN apiKeys \cap DOMAIN apiKeys' :
             OwnerFields(apiKeys'[k]) /= OwnerFields(apiKeys[k])
             => /\ upd.pc = "save"
                /\ upd.keyId = k
                /\ OwnerFields(apiKeys'[k])
                      = OwnerFields(ApplyPatch(apiKeys[k], upd.set))]_vars

\* the owner has renamed a Key Record, and the other user's DELETE and PUT
\* are answered 403, the PUT 400 when its permissions are not of the enum
C23_Witness ==
    \E k \in DOMAIN apiKeys : \E u \in NonOwners(k) :
        /\ apiKeys[k].name = "n2"
        /\ DeleteKeyResult(u, k).resp.status = 403
        /\ \E patch \in PatchInputs :
              UpdateBeginResult(u, k, patch).status = 403
        /\ \E patch \in PatchInputs :
              UpdateBeginResult(u, k, patch).status = 400

\* the lookup of a strict request is answered
StrictLookup == LookupStep /\ req.gate = "strict"

\* a step that removes the Key Record k removes nothing else, leaves every
\* Usage Record and every project as it is, and the owner's stats count
\* what they counted, the records of k within the window among it
RemovesOnlyKey(k) ==
    /\ apiKeys' = Remove(apiKeys, k)
    /\ projects' = projects
    /\ usageLogs' = usageLogs
    /\ pendingLogs' = pendingLogs
    /\ \A u \in Users : \A p \in Owned(u), period \in PeriodInputs :
          /\ StatsResult(usageLogs, u, p, period)'
                = StatsResult(usageLogs, u, p, period)
          /\ StatsResult(usageLogs, u, p, period)'.stats.totalCalls
                >= Cardinality({l \in InProjectWindow(p, PeriodDays(period)) :
                                   l.apiKeyId = k})

\* C24 as claimed: an owner's DELETE removes the Key Record and nothing
\* else, and once the first key is deleted every strict lookup of its secret
\* is answered 401.
C24_DeletedSecretRefused ==
    [][/\ \A k \in DOMAIN apiKeys \ DOMAIN apiKeys' : RemovesOnlyKey(k)
       /\ (StrictLookup /\ req.header = UsageKey /\ 1 \notin DOMAIN apiKeys)
          => GateRefused(req', "Invalid or inactive API key")]_vars

\* C24 (amended): an owner's DELETE removes the Key Record and nothing else:
\* the Usage Records stay stored and counted, and no stored Key Record has
\* the deleted secret; a strict lookup of a secret that no stored Key Record
\* has is answered 401 and writes nothing; a secret comes to be stored only
\* by a creation, which may draw the secret of a deleted Key Record.
C24_DeleteRemovesOnlyKey ==
    [][/\ \A k \in DOMAIN apiKeys \ DOMAIN apiKeys' :
             /\ RemovesOnlyKey(k)
             /\ apiKeys[k].key \notin StoredSecrets'
       /\ (StrictLookup /\ req.header \notin StoredSecrets)
          => /\ GateRefused(req', "Invalid or inactive API key")
             /\ apiKeys' = apiKeys
       /\ StoredSecrets' \ StoredSecrets /= {}
          => /\ nextKey' = nextKey + 1
             /\ DOMAIN apiKeys' = DOMAIN apiKeys \cup {nextKey'}]_vars

\* the first key is deleted and its secret is stored with no Key Record, a
\* Usage Record of it is stored and counted, and a strict request with its
\* secret was answered 401
C24_Witness ==
    /\ 1 \notin DOMAIN apiKeys
    /\ UsageKey \notin StoredSecrets
    /\ \E l \in usageLogs : l.apiKeyId = 1
    /\ StatsResult(usageLogs, "u1", 1, "1d").stats.totalCalls
          = Cardinality({l \in usageLogs : l.apiKeyId = 1})
    /\ req.gate = "strict"
    /\ req.header = UsageKey
    /\ GateRefused(req, "Invalid or inactive API key")

\* no two stored Key Records have the same secret
UniqueSecrets ==
    \A i, j \in DOMAIN apiKeys : apiKeys[i].key = apiKeys[j].key => i = j

\* C25: no two stored Key Records have the same secret, after every step;
\* no step changes the secret or the projectId of a stored Key Record, and a
\* step that changes a stored Key Record is the save of an update of it,
\* which leaves lastUsed as it is, or the save of an authentication with
\* it, which leaves name, description, permissions and isActive as they
\* are.
C25_SecretUniqueAndFixed ==
    [][/\ UniqueSecrets'
       /\ \A k \in DOMAIN apiKeys \cap DOMAIN apiKeys' :
             /\ apiKeys'[k].key = apiKeys[k].key
             /\ apiKeys'[k].projectId = apiKeys[k].projectId
             /\ apiKeys'[k] /= apiKeys[k]
                => \/ /\ upd.pc = "save"
                      /\ upd.keyId = k
                      /\ apiKeys'[k].lastUsed = apiKeys[k].lastUsed
                   \/ /\ req.pc = "save"
                      /\ req.keyDoc.id = k
                      /\ OwnerFields(apiKeys'[k]) = OwnerFields(apiKeys[k])
                      /\ apiKeys'[k].lastUsed /= apiKeys[k].lastUsed]_vars

\* two Key Records are stored: an update has set one inactive, an
\* authentication has set the lastUsed of one, and a creation that draws
\* either secret is answered 409
C25_Witness ==
    /\ Cardinality(DOMAIN apiKeys) = 2
    /\ Cardinality(StoredSecrets) = 2
    /\ \E k \in DOMAIN apiKeys : ~apiKeys[k].isActive
    /\ \E k \in DOMAIN apiKeys : apiKeys[k].lastUsed /= NullDate
    /\ \A key \in StoredSecrets :
          GenerateKeyResult("u1", 1, Patch({}, "", "", << >>, FALSE),
                            key).resp.status = 409

\* the sequence has no element twice
NoDuplicates(perms) ==
    \A i, j \in 1..Len(perms) : perms[i] = perms[j] => i = j

\* C26: the permissions stored for every Key Record lie in {auth, database,
\* storage} and hold no permission twice, and a create or update whose
\* permissions are not of the enumeration is answered 400 and changes
\* nothing.
C26_PermissionsAreSet ==
    /\ \A k \in DOMAIN apiKeys :
          /\ ValidPermissions(apiKeys[k].permissions)
          /\ NoDuplicates(apiKeys[k].permissions)
    /\ \A u \in Users, key \in ProductionKeys :
          \A body \in StoreGenerateInputs :
              ~ValidPermissions(body.permissions)
                  => /\ GenerateKeyResult(u, 1, body, key).resp.status = 400
                     /\ GenerateKeyResult(u, 1, body, key).apiKeys = apiKeys
    /\ \A u \in Users, k \in StoreKeyIds :
          \A patch \in StorePatchInputs :
              ~ValidPermissions(patch.permissions)
                  => UpdateBeginResult(u, k, patch).status = 400

\* a request that came to validateApiKey and was answered or passed on
WeakDecided == req.gate = "weak" /\ req.pc \in {"handler", "done"}

\* the error of the first of the four checks of validateApiKey that the
\* headers fail, in the order missing key, missing project id, prefix, shape
\* of the project id; none when they pass all four
WeakError(header, projHeader) ==
    IF header = NoHeader THEN "API key required"
    ELSE IF projHeader = NoHeader THEN "Project ID required"
    ELSE IF SubSeq(header, 1, 8) \notin {"pk_live_", "pk_test_"}
    THEN "Invalid API key format"
    ELSE IF ~(Len(projHeader) = 24 /\ IsLowerHex(projHeader))
    THEN "Invalid Project ID format"
    ELSE ""

\* C27 as claimed: validateApiKey calls next iff the x-api-key header has the
\* environment prefix and the format of a secret and the x-project-id
\* header is 24 lowercase hex characters.
C27_NextIffKeyFormat ==
    WeakDecided
    => (req.nextCalled
           <=> /\ isValidApiKeyFormat(req.header)
               /\ Len(req.projHeader) = 24
               /\ IsLowerHex(req.projHeader))

\* C27 (amended): validateApiKey never consults the Key Store and calls next
\* iff the x-api-key header is present and starts with pk_live_ or pk_test_,
\* whatever follows, and the x-project-id header is present and is exactly
\* 24 lowercase hex characters, and then attaches the two header values; in
\* every other case it responds 401 with the error of the first failed check
\* (missing key, missing project id, key prefix, project id shape),
\* attaches nothing and does not call next.
C27_NextIffPrefixAndShape ==
    WeakDecided
    => /\ req.keyDoc = NoKeyDoc
       /\ apiKeys = 1 :> KeyDoc(1, UsageKey, "Production Key", "",
                                <<"auth", "database">>, TRUE, NullDate)
       /\ req.nextCalled <=> WeakError(req.header, req.projHeader) = ""
       /\ req.nextCalled
          => /\ req.apiKey = "header"
             /\ req.projectId = "header"
             /\ req.project = "none"
             /\ req.status /= 401
       /\ ~req.nextCalled
          => /\ req.pc = "done"
             /\ req.status = 401
             /\ req.sent = 401
             /\ req.error = WeakError(req.header, req.projHeader)
             /\ req.apiKey = "none"
             /\ req.projectId = "none"
             /\ req.project = "none"
             /\ ~req.handlerRan

\* a key header with the prefix and nothing behind it passed the gate with a
\* well-shaped project id and was handled, though the store has no such
\* secret
C27_Witness ==
    /\ req.gate = "weak"
    /\ req.header = "pk_live_"
    /\ req.header \notin StoredSecrets
    /\ ~isValidApiKeyFormat(req.header)
    /\ req.nextCalled
    /\ req.handlerRan
    /\ req.pc = "done"

\* the save of a gate's authentication is answered
GateSaveStep == req.pc = "save" /\ req'.pc /= "save"

\* the save of an owner's update is answered
UpdateSaveStep == upd.pc = "save" /\ upd'.pc = "idle"

\* C28: the save of an authentication leaves name, description, permissions
\* and isActive of every stored Key Record as they are, also when the record
\* it loaded is older than an owner's write; the save of an owner's update
\* stores the values of its body and leaves lastUsed as it is, also when
\* an authentication wrote lastUsed after the update loaded the record.  So
\* once both have completed the record holds the owner's values and the
\* authentication's lastUsed, whichever read first.
C28_WritesDoNotRevert ==
    [][/\ GateSaveStep
          => /\ DOMAIN apiKeys' = DOMAIN apiKeys
             /\ \A k \in DOMAIN apiKeys :
                   OwnerFields(apiKeys'[k]) = OwnerFields(apiKeys[k])
             /\ (req'.nextCalled /\ req.keyDoc.modified /= {})
                => apiKeys'[req.keyDoc.id].lastUsed = req.keyDoc.doc.lastUsed
       /\ (UpdateSaveStep /\ upd.keyId \in DOMAIN apiKeys)
          => LET k == upd.keyId
                 set == upd.set
             IN  /\ DOMAIN apiKeys' = DOMAIN apiKeys
                 /\ \A j \in DOMAIN apiKeys \ {k} : apiKeys'[j] = apiKeys[j]
                 /\ apiKeys'[k].lastUsed = apiKeys[k].lastUsed
                 /\ "isActive" \in set.has
                    => apiKeys'[k].isActive = set.isActive
                 /\ "permissions" \in set.has
                    => apiKeys'[k].permissions = set.permissions
                 /\ "name" \in set.has => apiKeys'[k].name = set.name
                 /\ "description" \in set.has
                    => apiKeys'[k].description = set.description]_vars

\* an authentication loaded the record while it was active, the owner stored
\* isActive = false after that, and the authentication's save was answered:
\* the stored record is inactive and has the authentication's lastUsed
C28_Witness ==
    /\ req.gate = "strict"
    /\ req.nextCalled
    /\ req.keyDoc.modified /= {}
    /\ req.keyDoc.doc.isActive
    /\ req.keyDoc.id \in DOMAIN apiKeys
    /\ ~apiKeys[req.keyDoc.id].isActive
    /\ apiKeys[req.keyDoc.id].lastUsed = req.keyDoc.doc.lastUsed
    /\ apiKeys[req.keyDoc.id].lastUsed /= NullDate
    /\ upd.pc = "idle"

\* the sum of the counts of the groups of an aggregation
RECURSIVE SumCounts(_)
SumCounts(groups) ==
    IF groups = {} THEN 0
    ELSE LET g == CHOOSE x \in groups : TRUE
         IN  g.count + SumCounts(groups \ {g})

\* C29: every 200 response of GET /usage/stats/:projectId is a consistent
\* snapshot: the error count that errorRate is computed from is at most
\* totalCalls, todayCalls is at most totalCalls (the window is a day or
\* more), and the counts of statusCodeStats sum to totalCalls.
C29_ConsistentSnapshot ==
    (stat.pc = "done" /\ stat.status = 200)
    => /\ stat.errorCalls <= stat.totalCalls
       /\ stat.errorRate = ErrorRate(stat.errorCalls, stat.totalCalls)
       /\ stat.todayCalls <= stat.totalCalls
       /\ SumCounts(stat.statusCodeStats) = stat.totalCalls

\* the stored Key Records whose project is not stored
Orphaned == {k \in DOMAIN apiKeys : apiKeys[k].projectId \notin DOMAIN projects}

\* GET and DELETE on /api-keys/:keyId and GET /usage/keys/:keyId of an
\* orphaned Key Record end in 500 for every user and remove nothing
OrphanReadsFail(k) ==
    \A u \in Users :
        /\ GetKeyResult(u, k).resp.status = 500
        /\ DeleteKeyResult(u, k).resp.status = 500
        /\ DeleteKeyResult(u, k).apiKeys = apiKeys
        /\ \A period \in PeriodInputs :
              KeyUsageResult(usageLogs, u, k, period).resp.status = 500

====
